---- MODULE Spec2Model ----
(***************************************************************************)
(* The state-access core of the web3 gateway: gateway/src/client.rs        *)
(* (Client: notification tick, listener registry, block and log queries)   *)
(* over gateway/src/state.rs (StateDb, a read-only view of one database    *)
(* snapshot).                                                              *)
(*                                                                         *)
(* Option<T> is a sequence of length at most one: None is <<>>, Some(x) is *)
(* <<x>>.  A hash is a natural number, the zero hash (H256::default) is 0. *)
(***************************************************************************)
EXTENDS Integers, Sequences, FiniteSets, TLC

VARIABLES
    snapshot_manager,       \* Client.snapshot_manager is Some(_)
    chain_height,           \* Some(number of the best block the runtime committed), None
                            \* while the runtime has not initialized the database
    notified_block_number,  \* Client.notified_block_number (the cursor)
    cursor_lock,            \* the cursor Mutex: "free", "poisoned" or "held" for ever
    listeners,              \* Client.listeners: Vec<Weak<ChainNotify>>
    alive,                  \* listener object -> it still has a strong owner
    calls,                  \* calls made on listeners by the last operation
    counters,               \* metric counters incremented by the last operation
    op,                     \* the last operation and what it started from
    ticked,                 \* new_blocks has run and the database is unchanged since
    store,                  \* Some(the database, given key by key), None while the
                            \* database is the chain the runtime fills
    query,                  \* Some(the last read query and what it returned)
    remote,                 \* the calls the last client operation made on the runtime
                            \* client (Client.client), by name
    snapshot_kv,            \* StateDb.snapshot key by key, byte by byte: flat key ->
                            \* value, where a specification looks at the bytes
    target_endian,          \* the byte order of the target the gateway is built for
    pc,                     \* thread -> where it is in the operation it runs
    local,                  \* thread -> the locals of the operation it runs
    registry_readers,       \* the threads that hold the registry lock shared
    delivered               \* the notify_logs calls made on listeners, in order

vars == <<snapshot_manager, chain_height, notified_block_number, cursor_lock, listeners,
          alive, calls, counters, op, ticked, store, query, remote, snapshot_kv,
          target_endian, pc, local, registry_readers, delivered>>

\* what the notification tick and the registry leave alone
query_vars == <<store, query, remote, snapshot_kv, target_endian, pc, local,
                registry_readers, delivered>>

\* the database under the client
store_vars == <<store, snapshot_kv, target_endian>>

\* what a read query leaves alone
client_vars == <<snapshot_manager, chain_height, notified_block_number, cursor_lock,
                 listeners, alive, ticked, pc, local, registry_readers, delivered>>

----------------------------------------------------------------------------
(* Bounds of the model *)

\* how many times the database advances in one behaviour
MaxImports == 2
\* how many entries the listener registry holds at most
MaxRegistry == 2
\* the listener objects that exist
ListenerIds == {"l1", "l2"}
\* the threads that call new_blocks, add_listener and block
Tickers == {"t1", "t2"}
Registrars == {"r"}
Readers == {"b"}
Threads == Tickers \cup Registrars \cup Readers
\* how many times a thread calls its operation
MaxTicks == 1
\* new_blocks: const MAX_HEADERS
MAX_HEADERS == 256
\* by how many blocks the database advances between two looks at it
BlockSteps == {1, MAX_HEADERS, MAX_HEADERS + 1}
\* the heights the database passes through: sums of at most k steps
RECURSIVE Heights(_)
Heights(k) ==
    IF k = 0 THEN {0}
    ELSE Heights(k - 1) \cup {h + n : h \in Heights(k - 1), n \in BlockSteps}

----------------------------------------------------------------------------
(* Option, BlockId *)

None == <<>>
Some(x) == <<x>>

Latest == [tag |-> "Latest", val |-> 0]
Earliest == [tag |-> "Earliest", val |-> 0]
Number(n) == [tag |-> "Number", val |-> n]
Hash(h) == [tag |-> "Hash", val |-> h]

\* a reverse that leaves the order as it is
reverse_not(s) == s

\* Vec::reverse
reverse(s) == [i \in 1..Len(s) |-> s[Len(s) + 1 - i]]

----------------------------------------------------------------------------
(* StateDb: the snapshot is a record                                       *)
(*   best    : Option<hash>            COL_EXTRA, key "best"               *)
(*   hashes  : block number -> hash    COL_EXTRA, key = the block number   *)
(*   headers : hash -> header          COL_HEADERS                         *)
(*   logs    : hash -> log entries     the receipts of the block           *)
(*   bodies  : hash -> body            COL_BODIES; a body is the sequence  *)
(*                                     of the hashes of its transactions   *)
(*   transactions : transaction hash -> [block_hash, index]   COL_EXTRA    *)
(* and a header is [number, parent_hash, log_bloom].  A log entry is the   *)
(* address that logged it, a bloom is the set of addresses it has bits of. *)

EmptyMap == [x \in {} |-> 0]

best_block_hash(snapshot) == snapshot.best

StateDb_new(snapshot) ==
    IF best_block_hash(snapshot) # None THEN Some(snapshot) ELSE None

block_header_data(snapshot, hash) ==
    IF hash \in DOMAIN snapshot.headers
    THEN Some(snapshot.headers[hash]) ELSE None

block_hash(snapshot, index) ==
    IF index \in DOMAIN snapshot.hashes
    THEN Some(snapshot.hashes[index]) ELSE None

best_block_number(snapshot) ==
    LET best == best_block_hash(snapshot) IN
    IF best = None THEN 0
    ELSE LET h == block_header_data(snapshot, best[1]) IN
         IF h = None THEN 0 ELSE h[1].number

----------------------------------------------------------------------------
(* The database as the runtime fills it: block n of the chain has hash     *)
(* ChainHash(n), its parent is block n-1, the parent of genesis is the     *)
(* zero hash.  A block holds one transaction, whose hash is the number     *)
(* that is the hash of the block.                                          *)

ChainHash(n) == n + 1

ChainHeader(n) ==
    [number |-> n,
     parent_hash |-> IF n = 0 THEN 0 ELSE ChainHash(n - 1),
     log_bloom |-> {}]

Uninitialized ==
    [best |-> None, hashes |-> EmptyMap, headers |-> EmptyMap, logs |-> EmptyMap,
     bodies |-> EmptyMap, transactions |-> EmptyMap]

Chain(height) ==
    [best |-> Some(ChainHash(height)),
     hashes |-> [n \in 0..height |-> ChainHash(n)],
     headers |-> [h \in ChainHash(0)..ChainHash(height) |-> ChainHeader(h - 1)],
     logs |-> [h \in ChainHash(0)..ChainHash(height) |-> <<>>],
     bodies |-> [h \in ChainHash(0)..ChainHash(height) |-> <<h>>],
     transactions |-> [t \in ChainHash(0)..ChainHash(height) |->
                         [block_hash |-> t, index |-> 0]]]

----------------------------------------------------------------------------
(* Client::headers_since.  The result is [panic, hang, headers]: panic is   *)
(* the expect("Chain is corrupt") of a header that is not stored, hang is   *)
(* a loop that never reaches start.  A loop is run by its step: a walk over *)
(* parent links that ends visits every stored header at most once, so a     *)
(* walk that is still going after one step per stored header never ends.    *)

\* one turn of the loop of headers_since: push head, stop at start, else go
\* to the parent
headers_since_step(snapshot, start, st) ==
    IF st.done \/ st.panic THEN st
    ELSE LET pushed == Append(st.headers, st.head) IN
         IF st.head.number <= start
         THEN [st EXCEPT !.headers = pushed, !.done = TRUE]
         ELSE LET parent == block_header_data(snapshot, st.head.parent_hash) IN
              IF parent = None
              THEN [st EXCEPT !.headers = pushed, !.panic = TRUE]
              ELSE [st EXCEPT !.headers = pushed, !.head = parent[1]]

\* n turns of the loop
RECURSIVE headers_since_loop(_, _, _, _)
headers_since_loop(snapshot, start, st, n) ==
    IF n = 0 THEN st
    ELSE IF n = 1 THEN headers_since_step(snapshot, start, st)
    ELSE LET mid == headers_since_loop(snapshot, start, st, n \div 2) IN
         IF mid.done \/ mid.panic THEN mid
         ELSE headers_since_loop(snapshot, start, mid, n - (n \div 2))

\* "limit to `max` headers": the number the walk stops at, for a walk
\* that is to give at most the max headers below end
limit_start_short(start, end, max) ==
    IF end - start + 1 >= max THEN end - max ELSE start

\* "limit to `max` headers", without a limit
limit_start_none(start, end, max) == start

\* headers_since: "limit to `max` headers", the number the walk stops at
limit_start(start, end, max) ==
    IF end - start + 1 >= max THEN end - max + 1 ELSE start

headers_since(snapshot, start, end, max) ==
    LET from == limit_start(start, end, max)
        hash == block_hash(snapshot, end)
        head == IF hash = None THEN None ELSE block_header_data(snapshot, hash[1])
    IN  IF head = None
        THEN [panic |-> TRUE, hang |-> FALSE, headers |-> <<>>]
        ELSE LET st == headers_since_loop(snapshot, from,
                           [head |-> head[1], headers |-> <<>>,
                            done |-> FALSE, panic |-> FALSE],
                           Cardinality(DOMAIN snapshot.headers) + 1)
             IN  [panic |-> st.panic,
                  hang |-> ~st.done /\ ~st.panic,
                  headers |-> IF st.done THEN reverse(st.headers) ELSE <<>>]

----------------
(* Calls on a ChainNotify listener, as the listener sees them *)

HasHeadsCall(l, result) ==
    [listener |-> l, method |-> "has_heads_subscribers", result |-> result,
     headers |-> <<>>, from_block |-> None, to_block |-> None]

NotifyHeadsCall(l, headers) ==
    [listener |-> l, method |-> "notify_heads", result |-> FALSE,
     headers |-> headers, from_block |-> None, to_block |-> None]

NotifyLogsCall(l, from_block, to_block) ==
    [listener |-> l, method |-> "notify_logs", result |-> FALSE,
     headers |-> <<>>, from_block |-> Some(from_block), to_block |-> Some(to_block)]

----------------------------------------------------------------------------
(* Client::get_db_snapshot: [db, counters] *)

\* manager.get_snapshot(): the database as it is now
get_snapshot ==
    IF store # None THEN store[1]
    ELSE IF chain_height = None THEN Uninitialized ELSE Chain(chain_height[1])

\* get_db_snapshot that looks at the database without a snapshot manager
get_db_snapshot_unmanaged ==
    LET ret == StateDb_new(get_snapshot) IN
    [db |-> ret,
     counters |-> IF ret = None THEN <<"read_state_failed">> ELSE <<>>]

get_db_snapshot ==
    IF snapshot_manager
    THEN LET ret == StateDb_new(get_snapshot) IN
         [db |-> ret,
          counters |-> IF ret = None THEN <<"read_state_failed">> ELSE <<>>]
    ELSE [db |-> None, counters |-> <<>>]

----------------------------------------------------------------------------
(* Client::new_blocks *)

\* a closure that announces the log range to the listeners of heads only
new_blocks_closure_heads_only(hs, last_block, current_block, l, has_heads) ==
    LET logs == NotifyLogsCall(l, Number(last_block + 1), Number(current_block)) IN
    IF has_heads
    THEN IF hs.panic THEN [end |-> "panic", calls |-> <<HasHeadsCall(l, TRUE)>>]
         ELSE IF hs.hang THEN [end |-> "hang", calls |-> <<HasHeadsCall(l, TRUE)>>]
         ELSE [end |-> "return",
               calls |-> <<HasHeadsCall(l, TRUE), NotifyHeadsCall(l, hs.headers), logs>>]
    ELSE [end |-> "return", calls |-> <<HasHeadsCall(l, FALSE)>>]

\* the closure new_blocks hands to notify, run on listener l whose
\* has_heads_subscribers() answers has_heads: [end, calls], where end is
\* "return", "panic" or "hang".  hs is what headers_since(&db, *last_block
\* + 1, current_block, MAX_HEADERS) gives: the closure calls it on the one
\* snapshot of the tick, so every call of a tick gives the same
new_blocks_closure(hs, last_block, current_block, l, has_heads) ==
    LET logs == NotifyLogsCall(l, Number(last_block + 1), Number(current_block)) IN
    IF has_heads
    THEN IF hs.panic THEN [end |-> "panic", calls |-> <<HasHeadsCall(l, TRUE)>>]
         ELSE IF hs.hang THEN [end |-> "hang", calls |-> <<HasHeadsCall(l, TRUE)>>]
         ELSE [end |-> "return",
               calls |-> <<HasHeadsCall(l, TRUE), NotifyHeadsCall(l, hs.headers), logs>>]
    ELSE [end |-> "return", calls |-> <<HasHeadsCall(l, FALSE), logs>>]

\* Weak::upgrade that gives the listener although its owner dropped it
upgrade_dropped(l) == Some(l)

\* Weak::upgrade: the listener, while an owner keeps it alive
upgrade(l) == IF alive[l] THEN Some(l) ELSE None

\* Client::notify from registry entry i on: f[i] is what the closure does on
\* the listener of entry i; an entry whose upgrade() fails is skipped
RECURSIVE notify_from(_, _)
notify_from(f, i) ==
    IF i > Len(listeners) THEN [end |-> "return", calls |-> <<>>]
    ELSE IF upgrade(listeners[i]) = None THEN notify_from(f, i + 1)
    ELSE IF f[i].end # "return" THEN f[i]
    ELSE LET rest == notify_from(f, i + 1) IN
         [end |-> rest.end, calls |-> f[i].calls \o rest.calls]

notify(f) == notify_from(f, 1)

\* what op records of an operation: its name, the cursor it started from,
\* the height of the snapshot it got (None: no snapshot), how it ended
Op(name, last_block, snapshot, end) ==
    [name |-> name, last_block |-> last_block, snapshot |-> snapshot, end |-> end]

\* new_blocks that announces also when the snapshot is at the cursor
should_notify_again(current_block, last_block) == current_block >= last_block

\* new_blocks announces blocks when the snapshot is above the cursor
should_notify(current_block, last_block) == current_block > last_block

\* a cursor that ends one past the block announced last
advance_past(last_block, current_block) == current_block + 1

\* a cursor that counts the blocks of the last announcement
advance_by(last_block, current_block) == current_block - last_block

\* the cursor after new_blocks announced the blocks up to current_block
advance(last_block, current_block) == current_block

\* a tick whose guard is never dropped
unlock_never(end) == "held"

\* the cursor lock after a tick that ended with end
unlock(end) ==
    CASE end = "return" -> "free"
      [] end = "panic" -> "poisoned"
      [] end = "hang" -> "held"

new_blocks ==
    /\ cursor_lock # "held"
    /\ UNCHANGED query_vars
    /\ UNCHANGED <<snapshot_manager, chain_height, listeners, alive>>
    /\ IF cursor_lock = "poisoned"
       THEN \* notified_block_number.lock().unwrap() panics
            /\ op' = Op("new_blocks", notified_block_number, None, "panic")
            /\ calls' = <<>>
            /\ counters' = <<>>
            /\ UNCHANGED <<notified_block_number, cursor_lock, ticked>>
       ELSE \E last_block \in {notified_block_number} :
            \E snap \in {get_db_snapshot} :
                /\ counters' = snap.counters
                /\ ticked' = TRUE
                /\ IF snap.db = None
                   THEN /\ op' = Op("new_blocks", last_block, None, "return")
                        /\ calls' = <<>>
                        /\ UNCHANGED <<notified_block_number, cursor_lock>>
                   ELSE \E current_block \in {best_block_number(snap.db[1])} :
                        IF should_notify(current_block, last_block)
                        THEN \E hs \in {headers_since(snap.db[1], last_block + 1,
                                                      current_block, MAX_HEADERS)} :
                             \E has_heads \in [1..Len(listeners) -> BOOLEAN] :
                             \E out \in {notify([i \in 1..Len(listeners) |->
                                           new_blocks_closure(hs, last_block,
                                               current_block, listeners[i], has_heads[i])])} :
                                /\ calls' = out.calls
                                /\ cursor_lock' = unlock(out.end)
                                /\ notified_block_number' =
                                     IF out.end = "return"
                                     THEN advance(last_block, current_block)
                                     ELSE last_block
                                /\ op' = Op("new_blocks", last_block,
                                            Some(current_block), out.end)
                        ELSE /\ op' = Op("new_blocks", last_block,
                                         Some(current_block), "return")
                             /\ calls' = <<>>
                             /\ UNCHANGED <<notified_block_number, cursor_lock>>

----------------------------------------------------------------------------
(* Client::add_listener *)

\* a registry that takes the new listener at its front
push_front(registry, listener) == <<listener>> \o registry

\* Vec::push
push(registry, listener) == Append(registry, listener)

add_listener(listener) ==
    /\ Len(listeners) < MaxRegistry
    /\ UNCHANGED query_vars
    /\ listeners' = push(listeners, listener)
    /\ op' = Op("add_listener", notified_block_number, None, "return")
    /\ calls' = <<>>
    /\ counters' = <<>>
    /\ UNCHANGED <<snapshot_manager, chain_height, notified_block_number, cursor_lock, alive, ticked>>

----------------------------------------------------------------------------
(* The world around the client *)

\* the owner of a listener drops its last Arc: Weak::upgrade fails from now on
drop_listener(l) ==
    /\ alive[l]
    /\ UNCHANGED query_vars
    /\ alive' = [alive EXCEPT ![l] = FALSE]
    /\ op' = Op("drop_listener", notified_block_number, None, "return")
    /\ calls' = <<>>
    /\ counters' = <<>>
    /\ UNCHANGED <<snapshot_manager, chain_height, notified_block_number, cursor_lock, listeners, ticked>>

\* the runtime initializes the blockchain database: the genesis block
init_db ==
    /\ chain_height = None
    /\ UNCHANGED query_vars
    /\ chain_height' = Some(0)
    /\ op' = Op("init_db", notified_block_number, None, "return")
    /\ calls' = <<>>
    /\ counters' = <<>>
    /\ ticked' = FALSE
    /\ UNCHANGED <<snapshot_manager, notified_block_number, cursor_lock, listeners, alive>>

\* the runtime commits n more blocks on top of the best block
import_blocks(n) ==
    /\ chain_height # None
    /\ UNCHANGED query_vars
    /\ chain_height[1] + n \in Heights(MaxImports)
    /\ chain_height' = Some(chain_height[1] + n)
    /\ op' = Op("import_blocks", notified_block_number, None, "return")
    /\ calls' = <<>>
    /\ counters' = <<>>
    /\ ticked' = FALSE
    /\ UNCHANGED <<snapshot_manager, notified_block_number, cursor_lock, listeners, alive>>

----------------------------------------------------------------------------
(* The client and the world around it *)

\* the locals of a thread that is to call its operation left times
Local(left) ==
    [left |-> left, last_block |-> 0, current_block |-> 0, i |-> 0, db |-> None]

\* no thread is in an operation
no_threads ==
    /\ pc = [t \in Threads |-> "idle"]
    /\ local = [t \in Threads |-> Local(MaxTicks)]
    /\ registry_readers = {}
    /\ delivered = <<>>

Init ==
    /\ snapshot_manager \in BOOLEAN
    /\ chain_height = None
    /\ notified_block_number = 0
    /\ cursor_lock = "free"
    /\ listeners = <<>>
    /\ alive = [l \in ListenerIds |-> TRUE]
    /\ calls = <<>>
    /\ counters = <<>>
    /\ op = Op("new", 0, None, "return")
    /\ ticked = FALSE
    /\ store = None
    /\ query = None
    /\ remote = <<>>
    /\ snapshot_kv = EmptyMap
    /\ target_endian = "little"
    /\ no_threads

Next ==
    \/ new_blocks
    \/ \E l \in ListenerIds : add_listener(l)
    \/ \E l \in ListenerIds : drop_listener(l)
    \/ init_db
    \/ \E n \in BlockSteps : import_blocks(n)

Spec == Init /\ [][Next]_vars

----------------------------------------------------------------------------
(* Client::id_to_block_hash, Client::logs.  A Filter is [from_block,        *)
(* to_block, address, limit]: address is the set of addresses it admits,    *)
(* the empty set admits every address; limit is an Option.                  *)

Filter(from_block, to_block, address, limit) ==
    [from_block |-> from_block, to_block |-> to_block,
     address |-> address, limit |-> limit]

id_to_block_hash(db, id) ==
    CASE id.tag = "Hash" -> Some(id.val)
      [] id.tag = "Number" -> block_hash(db, id.val)
      [] id.tag = "Earliest" -> block_hash(db, 0)
      [] id.tag = "Latest" -> best_block_hash(db)

\* StateDb::block_number: the number of the block with this hash
block_number(db, hash) ==
    LET header == block_header_data(db, hash) IN
    IF header = None THEN None ELSE Some(header[1].number)

\* Filter::bloom_possibilities: one bloom for each address the filter admits,
\* the empty bloom when it admits all
bloom_possibilities(filter) ==
    IF filter.address = {} THEN {{}} ELSE {{a} : a \in filter.address}

\* Bloom::contains_bloom
contains_bloom(log_bloom, bloom) == bloom \subseteq log_bloom

\* a bloom_match that takes every header
bloom_match_any(blooms, header) == TRUE

\* the closure bloom_match of logs
bloom_match(blooms, header) ==
    \E bloom \in blooms : contains_bloom(header.log_bloom, bloom)

\* Filter::matches
matches(filter, entry) ==
    filter.address = {} \/ entry.address \in filter.address

\* the log entries of one block, localized
block_logs(db, hash) ==
    IF hash \in DOMAIN db.logs /\ hash \in DOMAIN db.headers
    THEN [i \in 1..Len(db.logs[hash]) |->
            [block_hash |-> hash, block_number |-> db.headers[hash].number,
             address |-> db.logs[hash][i], log_index |-> i - 1]]
    ELSE <<>>

\* the entries of the blocks from the i-th on that the filter matches
RECURSIVE matching_logs(_, _, _, _)
matching_logs(db, blocks, filter, i) ==
    IF i > Len(blocks) THEN <<>>
    ELSE SelectSeq(block_logs(db, blocks[i]), LAMBDA entry : matches(filter, entry))
         \o matching_logs(db, blocks, filter, i + 1)

\* StateDb::logs(blocks, matches, limit): the matching entries of the blocks
\* in the order of the blocks, the last limit of them when there are more
StateDb_logs(db, blocks, filter) ==
    LET all == matching_logs(db, blocks, filter, 1) IN
    IF filter.limit = None \/ Len(all) <= filter.limit[1] THEN all
    ELSE SubSeq(all, Len(all) - filter.limit[1] + 1, Len(all))

\* one turn of the loop of logs on st = [current_hash, blocks, done, none]:
\* done is the break, none is the ? on a header that is not stored
\* a turn of the loop that does not go to the parent
logs_step_stay(db, blooms, from_number, st) ==
    IF st.done \/ st.none THEN st
    ELSE LET header == block_header_data(db, st.current_hash) IN
         IF header = None THEN [st EXCEPT !.none = TRUE]
         ELSE IF header[1].number <= from_number THEN [st EXCEPT !.done = TRUE]
         ELSE st

logs_step(db, blooms, from_number, st) ==
    IF st.done \/ st.none THEN st
    ELSE LET header == block_header_data(db, st.current_hash) IN
         IF header = None THEN [st EXCEPT !.none = TRUE]
         ELSE LET blocks == IF bloom_match(blooms, header[1])
                            THEN Append(st.blocks, st.current_hash)
                            ELSE st.blocks IN
              IF header[1].number <= from_number
              THEN [st EXCEPT !.blocks = blocks, !.done = TRUE]
              ELSE [st EXCEPT !.blocks = blocks,
                              !.current_hash = header[1].parent_hash]

\* n turns of the loop
RECURSIVE logs_loop(_, _, _, _, _)
logs_loop(db, blooms, from_number, st, n) ==
    IF n = 0 THEN st
    ELSE IF n = 1 THEN logs_step(db, blooms, from_number, st)
    ELSE LET mid == logs_loop(db, blooms, from_number, st, n \div 2) IN
         IF mid.done \/ mid.none THEN mid
         ELSE logs_loop(db, blooms, from_number, mid, n - (n \div 2))

\* a check that takes any walk that found a block
incomplete_walk_found(last_hash, from_hash, blocks) == blocks = <<>>

\* the check after the walk: it did not reach the expected from block
incomplete_walk(last_hash, from_hash, blocks) ==
    last_hash # from_hash \/ blocks = <<>>

\* the closure fetch_logs: [hang, value, blocks], value the Option it
\* returns, blocks the candidates it hands to StateDb::logs (none when it
\* does not get there); hang is a walk that never breaks
fetch_logs(db, filter) ==
    LET none == [hang |-> FALSE, value |-> None, blocks |-> <<>>]
        from_hash == id_to_block_hash(db, filter.from_block) IN
    IF from_hash = None THEN none
    ELSE LET from_number == block_number(db, from_hash[1]) IN
    IF from_number = None THEN none
    ELSE LET to_hash == id_to_block_hash(db, filter.to_block) IN
    IF to_hash = None THEN none
    ELSE LET walk == logs_loop(db, bloom_possibilities(filter), from_number[1],
                               [current_hash |-> to_hash[1], blocks |-> <<>>,
                                done |-> FALSE, none |-> FALSE],
                               Cardinality(DOMAIN db.headers) + 1) IN
    IF walk.none THEN none
    ELSE IF ~walk.done THEN [hang |-> TRUE, value |-> None, blocks |-> <<>>]
    ELSE LET blocks == reverse(walk.blocks)
             last_hash == walk.current_hash IN
         IF incomplete_walk(last_hash, from_hash[1], blocks) THEN none
         ELSE [hang |-> FALSE, value |-> Some(StateDb_logs(db, blocks, filter)),
               blocks |-> blocks]

\* Option::unwrap_or_default on a Vec
unwrap_or_default(option) == IF option = None THEN <<>> ELSE option[1]

\* Client::logs: [hang, entries, blocks, counters, local], local when it had
\* a snapshot to search
logs(filter) ==
    LET snap == get_db_snapshot IN
    IF snap.db # None
    THEN LET fetched == fetch_logs(snap.db[1], filter) IN
         [hang |-> fetched.hang, entries |-> unwrap_or_default(fetched.value),
          blocks |-> fetched.blocks, counters |-> snap.counters, local |-> TRUE]
    ELSE [hang |-> FALSE, entries |-> <<>>, blocks |-> <<>>,
          counters |-> snap.counters, local |-> FALSE]

----------------------------------------------------------------------------
(* Read queries on a database given key by key: headers on forks, headers   *)
(* whose parent is not stored, the hash index of the chain of the best      *)
(* block.  A block holds one transaction, whose hash is the number that is  *)
(* the hash of the block; the transactions of the chain of the best block   *)
(* are indexed; the body of the block Pruned is stored without its header.  *)

\* the largest block number of a header
MaxNumber == 2
\* the largest limit of a filter
MaxLimit == 1
\* the hashes that may have a header
Hashes == {1, 2, 3}
\* a hash that has no header: the parent of a header whose ancestors are gone
Pruned == Cardinality(Hashes) + 1
\* the addresses that log
Addresses == {1}
\* what a block logs: the addresses of its log entries, in order
Receipts == {<<>>, <<1>>}

\* what is stored under each hash: nothing or a block [parent_hash, number, logs]
Placements ==
    [Hashes -> {None} \cup
               {Some([parent_hash |-> p, number |-> n, logs |-> r]) :
                    p \in 0..Pruned, n \in 0..MaxNumber, r \in Receipts}]

\* the blocks are numbered as a chain numbers them: genesis, whose parent is
\* the zero hash, is block 0, and a block is one above its parent
Wellformed(pl) ==
    \A h \in Hashes :
        pl[h] # None =>
            LET b == pl[h][1] IN
            CASE b.parent_hash = 0 -> b.number = 0
              [] b.parent_hash = Pruned -> b.number >= 1
              [] OTHER -> /\ b.parent_hash < h
                          /\ pl[b.parent_hash] # None
                          /\ b.number = pl[b.parent_hash][1].number + 1

\* the hashes of the stored blocks from h back along the parent links
RECURSIVE chain_of(_, _)
chain_of(pl, h) ==
    IF h \notin Hashes \/ pl[h] = None THEN {}
    ELSE {h} \cup chain_of(pl, pl[h][1].parent_hash)

\* Bloom of the log entries of a block
bloom_of(r) == {r[i] : i \in DOMAIN r}

Database(pl, best) ==
    LET stored == {h \in Hashes : pl[h] # None}
        chain == chain_of(pl, best) IN
    [best |-> Some(best),
     hashes |-> [n \in {pl[h][1].number : h \in chain} |->
                    CHOOSE h \in chain : pl[h][1].number = n],
     headers |-> [h \in stored |->
                    [number |-> pl[h][1].number,
                     parent_hash |-> pl[h][1].parent_hash,
                     log_bloom |-> bloom_of(pl[h][1].logs)]],
     logs |-> [h \in stored |-> pl[h][1].logs],
     bodies |-> [h \in stored \cup {Pruned} |-> <<h>>],
     transactions |-> [t \in chain |-> [block_hash |-> t, index |-> 0]]]

Databases ==
    {Uninitialized} \cup
    {Database(pl, best) :
        <<pl, best>> \in {x \in Placements \X Hashes :
                            Wellformed(x[1]) /\ x[1][x[2]] # None}}

BlockIds ==
    {Latest, Earliest} \cup {Number(n) : n \in 0..MaxNumber}
                       \cup {Hash(h) : h \in Hashes}

Filters ==
    {Filter(from_block, to_block, address, limit) :
        from_block \in BlockIds, to_block \in BlockIds,
        address \in SUBSET Addresses,
        limit \in {None} \cup {Some(n) : n \in 1..MaxLimit}}

\* a call of Client::logs; a behaviour asks one query of its database
logs_query(filter) ==
    /\ query = None
    /\ \E ret \in {logs(filter)} :
        /\ query' = Some([name |-> "logs", filter |-> filter,
                          hang |-> ret.hang, entries |-> ret.entries,
                          blocks |-> ret.blocks])
        /\ counters' = ret.counters
        /\ op' = Op("logs", notified_block_number, None,
                    IF ret.hang THEN "hang" ELSE "return")
    /\ calls' = <<>>
    /\ UNCHANGED <<client_vars, store_vars, remote>>

InitQueries ==
    /\ snapshot_manager = TRUE
    /\ chain_height = None
    /\ notified_block_number = 0
    /\ cursor_lock = "free"
    /\ listeners = <<>>
    /\ alive = [l \in ListenerIds |-> TRUE]
    /\ calls = <<>>
    /\ counters = <<>>
    /\ op = Op("new", 0, None, "return")
    /\ ticked = FALSE
    /\ store \in {Some(db) : db \in Databases}
    /\ query = None
    /\ remote = <<>>
    /\ snapshot_kv = EmptyMap
    /\ target_endian = "little"
    /\ no_threads

NextQueries ==
    \E filter \in Filters : logs_query(filter)

SpecQueries == InitQueries /\ [][NextQueries]_vars

----------------------------------------------------------------------------
(* Client::headers_since as a function of its arguments *)

\* the largest max of a call of headers_since
MaxMax == 4

\* a call of headers_since(&db, start, end, max) with start <= end, max >= 1
headers_since_query(start, end, max) ==
    /\ query = None
    /\ start <= end
    /\ \E db \in {StateDb_new(store[1])} :
        /\ db # None
        /\ \E ret \in {headers_since(db[1], start, end, max)} :
            /\ query' = Some([name |-> "headers_since", start |-> start,
                              end |-> end, max |-> max, panic |-> ret.panic,
                              hang |-> ret.hang, headers |-> ret.headers])
            /\ op' = Op("headers_since", notified_block_number, None,
                        IF ret.panic THEN "panic"
                        ELSE IF ret.hang THEN "hang" ELSE "return")
    /\ calls' = <<>>
    /\ counters' = <<>>
    /\ UNCHANGED <<client_vars, store_vars, remote>>

NextHeadersSince ==
    \E start \in 0..MaxNumber, end \in 0..MaxNumber, max \in 1..MaxMax :
        headers_since_query(start, end, max)

SpecHeadersSince == InitQueries /\ [][NextHeadersSince]_vars

----------------------------------------------------------------------------
(* Client::block_number, Client::max_block_number, Client::min_block_number *)

\* Client::block_number
Client_block_number(hash) ==
    LET snap == get_db_snapshot IN
    IF snap.db # None THEN block_number(snap.db[1], hash) ELSE None

\* a to_block_number that puts a hash it cannot resolve above every number
to_block_number_high(id) ==
    CASE id.tag = "Number" -> id.val
      [] id.tag = "Hash" ->
            LET num == Client_block_number(id.val) IN
            IF num # None THEN num[1] ELSE MaxNumber + 1

\* the closure to_block_number of max_block_number and min_block_number;
\* Latest and Earliest do not get here
to_block_number(id) ==
    CASE id.tag = "Number" -> id.val
      [] id.tag = "Hash" ->
            LET num == Client_block_number(id.val) IN
            IF num # None THEN num[1] ELSE 0

max_block_number(id_a, id_b) ==
    IF id_a = Latest \/ id_b = Latest THEN Latest
    ELSE IF id_a = Earliest THEN id_b
    ELSE IF id_b = Earliest THEN id_a
    ELSE IF to_block_number(id_a) > to_block_number(id_b) THEN id_a ELSE id_b

min_block_number(id_a, id_b) ==
    IF id_a = Earliest \/ id_b = Earliest THEN Earliest
    ELSE IF id_a = Latest THEN id_b
    ELSE IF id_b = Latest THEN id_a
    ELSE IF to_block_number(id_a) < to_block_number(id_b) THEN id_a ELSE id_b

\* the ids of a query: those of the filters and the hash that has no header
QueryIds == BlockIds \cup {Hash(Pruned)}

\* a caller orders two ids: max_block_number and min_block_number of one pair
block_number_order_query(id_a, id_b) ==
    /\ query = None
    /\ query' = Some([name |-> "block_number_order", id_a |-> id_a, id_b |-> id_b,
                      max |-> max_block_number(id_a, id_b),
                      min |-> min_block_number(id_a, id_b)])
    /\ op' = Op("block_number_order", notified_block_number, None, "return")
    /\ calls' = <<>>
    /\ counters' = <<>>
    /\ UNCHANGED <<client_vars, store_vars, remote>>

NextBlockOrder ==
    \E id_a \in QueryIds, id_b \in QueryIds : block_number_order_query(id_a, id_b)

SpecBlockOrder == InitQueries /\ [][NextBlockOrder]_vars

----------------------------------------------------------------------------
(* The read operations of Client, built with the feature read_state.  What  *)
(* an operation does is an Answer: where its value came from ("snapshot",   *)
(* "remote", or "none" when it asked neither), the value, the calls it made *)
(* on the runtime client, the counters it incremented, how many snapshots   *)
(* it took and whether it ran the transaction executor.                     *)

Answer(source, value, remote_calls, incremented, snapshots) ==
    [source |-> source, value |-> value, remote |-> remote_calls,
     counters |-> incremented, snapshots |-> snapshots, executed |-> FALSE,
     panic |-> FALSE]

\* Result<T, Error>
Ok(val) == [ok |-> TRUE, val |-> val]
Err == [ok |-> FALSE, val |-> None]

\* what a call on the runtime client, or a read of the account state, gives
Results == {Ok(Some(1)), Err}

\* what get_block_height gives: a height, which may be 0, or an error
HeightResults == {Ok(Some(0)), Ok(Some(1)), Err}

\* what get_block gives: no block, a block, or an error
BlockResults == {Ok(None), Ok(Some(1)), Err}

\* contract_call_result: [value, counters]
contract_call_result(call, result, default) ==
    IF result.ok
    THEN [value |-> result.val, counters |-> <<"contract_call_succeeded">>]
    ELSE [value |-> default, counters |-> <<"contract_call_failed">>]

\* an operation that falls back to the call on the runtime client
contract_call(call, result, default, snap) ==
    LET ret == contract_call_result(call, result, default) IN
    Answer("remote", ret.value, <<call>>, snap.counters \o ret.counters, 1)

\* StateDb::block_body
block_body(db, hash) ==
    IF hash \in DOMAIN db.bodies THEN Some(db.bodies[hash]) ELSE None

\* a block that is made of the body alone
StateDb_block_of_body(db, hash) ==
    LET body == block_body(db, hash) IN
    IF body = None THEN None
    ELSE Some([header |-> [number |-> 0, parent_hash |-> 0, log_bloom |-> {}],
               body |-> body[1]])

\* StateDb::block
StateDb_block(db, hash) ==
    LET header == block_header_data(db, hash) IN
    IF header = None THEN None
    ELSE LET body == block_body(db, hash) IN
         IF body = None THEN None
         ELSE Some([header |-> header[1], body |-> body[1]])

\* Client::best_block_number
Client_best_block_number(result) ==
    LET snap == get_db_snapshot IN
    IF snap.db # None
    THEN Answer("snapshot", Some(best_block_number(snap.db[1])), <<>>,
                snap.counters, 1)
    ELSE contract_call("get_block_height", result, Some(0), snap)

\* Client::block_hash
Client_block_hash(id) ==
    IF id.tag = "Hash" THEN Answer("none", Some(id.val), <<>>, <<>>, 0)
    ELSE LET snap == get_db_snapshot IN
         IF snap.db # None
         THEN Answer("snapshot", id_to_block_hash(snap.db[1], id), <<>>,
                     snap.counters, 1)
         ELSE Answer("none", None, <<>>, snap.counters, 1)

\* Client::block
Client_block(id, result) ==
    LET snap == get_db_snapshot IN
    IF snap.db # None
    THEN LET h == Client_block_hash(id) IN
         Answer("snapshot",
                IF h.value = None THEN None ELSE StateDb_block(snap.db[1], h.value[1]),
                <<>>, snap.counters \o h.counters, 1 + h.snapshots)
    ELSE contract_call("get_block", result, None, snap)

\* TransactionId
TransactionHash(hash) == [tag |-> "Hash", val |-> hash, id |-> Latest, index |-> 0]
Location(id, index) == [tag |-> "Location", val |-> 0, id |-> id, index |-> index]

\* StateDb::transaction_address
transaction_address(db, hash) ==
    IF hash \in DOMAIN db.transactions THEN Some(db.transactions[hash]) ELSE None

\* StateDb::transaction: the transaction at an address, localized
StateDb_transaction(db, address) ==
    LET header == block_header_data(db, address.block_hash)
        body == block_body(db, address.block_hash) IN
    IF header = None \/ body = None THEN None
    ELSE IF address.index >= Len(body[1]) THEN None
    ELSE Some([hash |-> body[1][address.index + 1],
               block_hash |-> address.block_hash,
               block_number |-> header[1].number,
               transaction_index |-> address.index])

\* StateDb::transaction_receipt: the receipt of the transaction at an address
StateDb_transaction_receipt(db, address) ==
    IF address.block_hash \in DOMAIN db.logs /\ address.index = 0
    THEN Some([logs |-> db.logs[address.block_hash]])
    ELSE None

\* Client::transaction
transaction(id) ==
    LET snap == get_db_snapshot IN
    IF snap.db # None
    THEN LET db == snap.db[1]
             address ==
                IF id.tag = "Hash" THEN transaction_address(db, id.val)
                ELSE LET hash == id_to_block_hash(db, id.id) IN
                     IF hash = None THEN None
                     ELSE Some([block_hash |-> hash[1], index |-> id.index]) IN
         Answer("snapshot",
                IF address = None THEN None ELSE StateDb_transaction(db, address[1]),
                <<>>, snap.counters, 1)
    ELSE Answer("none", None, <<>>, snap.counters, 1)

\* Client::transaction_receipt
transaction_receipt(hash) ==
    LET snap == get_db_snapshot IN
    IF snap.db # None
    THEN LET db == snap.db[1]
             address == transaction_address(db, hash)
             receipt == IF address = None THEN None
                        ELSE StateDb_transaction_receipt(db, address[1])
             tx == IF receipt = None THEN None
                   ELSE StateDb_transaction(db, address[1]) IN
         Answer("snapshot",
                IF tx = None THEN None
                ELSE Some([transaction_hash |-> tx[1].hash,
                           transaction_index |-> tx[1].transaction_index,
                           block_hash |-> tx[1].block_hash,
                           block_number |-> tx[1].block_number,
                           logs |-> receipt[1].logs]),
                <<>>, snap.counters, 1)
    ELSE Answer("none", None, <<>>, snap.counters, 1)

\* Client::logs as an Answer
Client_logs(filter) ==
    LET ret == logs(filter) IN
    Answer(IF ret.local THEN "snapshot" ELSE "none",
           Some(ret.entries), <<>>, ret.counters, 1)

----------------------------------------------------------------------------
(* The account state: Client::balance, code, nonce, storage_at, call,       *)
(* estimate_gas; Client::send_raw_transaction                               *)

\* StateDb::get_ethstate_at: the account state at the state root of the
\* header of the block, None when the id has no stored header
get_ethstate_at(db, id) ==
    LET hash == id_to_block_hash(db, id) IN
    IF hash = None THEN None
    ELSE IF block_header_data(db, hash[1]) = None THEN None
    ELSE Some([block_hash |-> hash[1]])

\* Client::get_ethstate_snapshot_at: [state, counters]
get_ethstate_snapshot_at(id) ==
    LET snap == get_db_snapshot IN
    [state |-> IF snap.db = None THEN None ELSE get_ethstate_at(snap.db[1], id),
     counters |-> snap.counters]

\* an account read that asks the runtime when the read of the state fails
account_read_fallback(call, id, read, result) ==
    LET at == get_ethstate_snapshot_at(id) IN
    IF at.state # None /\ read.ok
    THEN Answer("snapshot", read.val, <<>>, at.counters, 1)
    ELSE contract_call(call, result, None, at)

\* balance, code, nonce and storage_at are one text with the state getter
\* and the call on the runtime client changed: read is what the getter
\* gives, result what the call gives
account_read(call, id, read, result) ==
    LET at == get_ethstate_snapshot_at(id) IN
    IF at.state # None
    THEN IF read.ok
         THEN Answer("snapshot", read.val, <<>>, at.counters, 1)
         ELSE Answer("snapshot", None, <<>>,
                     at.counters \o <<"read_state_failed">>, 1)
    ELSE contract_call(call, result, None, at)

balance(id, read, result) == account_read("get_account_balance", id, read, result)
code(id, read, result) == account_read("get_account_code", id, read, result)
nonce(id, read, result) == account_read("get_account_nonce", id, read, result)
storage_at(id, read, result) == account_read("get_storage_at", id, read, result)

\* CallError
StateCorrupt == [ok |-> FALSE, val |-> Some("StateCorrupt")]
Execution == [ok |-> FALSE, val |-> Some("Execution")]

\* Client::get_env_info: panic is the expect("No best block")
get_env_info(db) ==
    LET hash == best_block_hash(db)
        parent == IF hash = None THEN None ELSE block_header_data(db, hash[1]) IN
    IF parent = None THEN [panic |-> TRUE, number |-> 0]
    ELSE [panic |-> FALSE, number |-> parent[1].number + 1]

\* a call that asks the runtime to simulate when it has no snapshot
call_remote(id, executed) ==
    LET snap == get_db_snapshot IN
    IF snap.db = None
    THEN contract_call("simulate_transaction", executed, None, snap)
    ELSE Answer("none", StateCorrupt, <<>>, snap.counters, 1)

\* Client::call and Client::estimate_gas are one text up to the value they
\* make of what the executor returns; executed is what transact_virtual gives
call(id, executed) ==
    LET snap == get_db_snapshot IN
    IF snap.db = None
    THEN Answer("none", StateCorrupt, <<>>, snap.counters, 1)
    ELSE LET state == get_ethstate_at(snap.db[1], id) IN
         IF state = None
         THEN Answer("none", StateCorrupt, <<>>, snap.counters, 1)
         ELSE LET env_info == get_env_info(snap.db[1])
                  ran == Answer("snapshot", IF executed.ok THEN executed ELSE Execution,
                                <<>>, snap.counters, 1) IN
              IF env_info.panic
              THEN [Answer("none", None, <<>>, snap.counters, 1) EXCEPT !.panic = TRUE]
              ELSE [ran EXCEPT !.executed = TRUE]

estimate_gas(id, executed) == call(id, executed)

\* what execute_raw_transaction gives: Err, or Ok of a transaction that
\* created a contract or did not
RawResults == {Err, Ok([created_contract |-> TRUE, hash |-> Ok(Some(1))]),
               Ok([created_contract |-> FALSE, hash |-> Ok(Some(1))])}

\* a send_raw_transaction that looks for a snapshot first
send_raw_transaction_local(result) ==
    LET snap == get_db_snapshot IN
    IF snap.db # None THEN Answer("snapshot", Err, <<>>, snap.counters, 1)
    ELSE Answer("remote", Err, <<"execute_raw_transaction">>, snap.counters, 1)

\* Client::send_raw_transaction
send_raw_transaction(result) ==
    LET mapped == IF result.ok THEN Ok(result.val.hash) ELSE Err
        created == IF result.ok /\ result.val.created_contract
                   THEN <<"contract_created">> ELSE <<>>
        ret == contract_call_result("execute_raw_transaction", mapped,
                                    [ok |-> FALSE, val |-> Some("no response from runtime")])
    IN Answer("remote", ret.value, <<"execute_raw_transaction">>,
              created \o ret.counters, 0)

----------------------------------------------------------------------------
(* The calls of the RPC layer on the client while the runtime fills the     *)
(* database                                                                 *)

\* the ids of the calls: the best block, block 1, the zero hash
CallIds == {Latest, Number(1), Hash(0)}

\* the transaction ids of the calls
CallTransactionIds ==
    {TransactionHash(ChainHash(1))} \cup {Location(id, 0) : id \in {Number(1), Hash(0)}}

\* the filters of the calls
CallFilters == {Filter(Latest, Latest, {}, None)}

\* what query records of the operation name called with id that did out
\* and was given what the runtime client, the account state or the executor
\* answers
Returned(name, id, out, given) ==
    [name |-> name, id |-> id, source |-> out.source, value |-> out.value,
     snapshots |-> out.snapshots, executed |-> out.executed, given |-> given]

\* how an operation that did out ended
Ended(out) == IF out.panic THEN "panic" ELSE "return"

best_block_number_call ==
    \E result \in HeightResults : \E out \in {Client_best_block_number(result)} :
        /\ query' = Some(Returned("best_block_number", None, out, [result |-> result]))
        /\ remote' = out.remote
        /\ counters' = out.counters
        /\ op' = Op("best_block_number", notified_block_number, None, Ended(out))
        /\ calls' = <<>>
        /\ UNCHANGED <<client_vars, store_vars>>

\* Client::block; the id of a call that falls back to the runtime goes
\* through util::from_block_id, which takes no hash
block_call(id) ==
    \E result \in BlockResults : \E out \in {Client_block(id, result)} :
        /\ out.source = "remote" => id.tag # "Hash"
        /\ query' = Some(Returned("block", Some(id), out, [result |-> result]))
        /\ remote' = out.remote
        /\ counters' = out.counters
        /\ op' = Op("block", notified_block_number, None, Ended(out))
        /\ calls' = <<>>
        /\ UNCHANGED <<client_vars, store_vars>>

block_hash_call(id) ==
    \E out \in {Client_block_hash(id)} :
        /\ query' = Some(Returned("block_hash", Some(id), out, None))
        /\ remote' = out.remote
        /\ counters' = out.counters
        /\ op' = Op("block_hash", notified_block_number, None, Ended(out))
        /\ calls' = <<>>
        /\ UNCHANGED <<client_vars, store_vars>>

transaction_call(id) ==
    \E out \in {transaction(id)} :
        /\ query' = Some(Returned("transaction", Some(id.id), out, None))
        /\ remote' = out.remote
        /\ counters' = out.counters
        /\ op' = Op("transaction", notified_block_number, None, Ended(out))
        /\ calls' = <<>>
        /\ UNCHANGED <<client_vars, store_vars>>

transaction_receipt_call(hash) ==
    \E out \in {transaction_receipt(hash)} :
        /\ query' = Some(Returned("transaction_receipt", None, out, None))
        /\ remote' = out.remote
        /\ counters' = out.counters
        /\ op' = Op("transaction_receipt", notified_block_number, None, Ended(out))
        /\ calls' = <<>>
        /\ UNCHANGED <<client_vars, store_vars>>

logs_call(filter) ==
    \E out \in {Client_logs(filter)} :
        /\ query' = Some(Returned("logs", None, out, None))
        /\ remote' = out.remote
        /\ counters' = out.counters
        /\ op' = Op("logs", notified_block_number, None, Ended(out))
        /\ calls' = <<>>
        /\ UNCHANGED <<client_vars, store_vars>>

balance_call(id) ==
    \E read \in Results, result \in Results : \E out \in {balance(id, read, result)} :
        /\ query' = Some(Returned("balance", Some(id), out,
                          [read |-> read, result |-> result]))
        /\ remote' = out.remote
        /\ counters' = out.counters
        /\ op' = Op("balance", notified_block_number, None, Ended(out))
        /\ calls' = <<>>
        /\ UNCHANGED <<client_vars, store_vars>>

code_call(id) ==
    \E read \in Results, result \in Results : \E out \in {code(id, read, result)} :
        /\ query' = Some(Returned("code", Some(id), out,
                          [read |-> read, result |-> result]))
        /\ remote' = out.remote
        /\ counters' = out.counters
        /\ op' = Op("code", notified_block_number, None, Ended(out))
        /\ calls' = <<>>
        /\ UNCHANGED <<client_vars, store_vars>>

nonce_call(id) ==
    \E read \in Results, result \in Results : \E out \in {nonce(id, read, result)} :
        /\ query' = Some(Returned("nonce", Some(id), out,
                          [read |-> read, result |-> result]))
        /\ remote' = out.remote
        /\ counters' = out.counters
        /\ op' = Op("nonce", notified_block_number, None, Ended(out))
        /\ calls' = <<>>
        /\ UNCHANGED <<client_vars, store_vars>>

storage_at_call(id) ==
    \E read \in Results, result \in Results : \E out \in {storage_at(id, read, result)} :
        /\ query' = Some(Returned("storage_at", Some(id), out,
                          [read |-> read, result |-> result]))
        /\ remote' = out.remote
        /\ counters' = out.counters
        /\ op' = Op("storage_at", notified_block_number, None, Ended(out))
        /\ calls' = <<>>
        /\ UNCHANGED <<client_vars, store_vars>>

call_call(id) ==
    \E executed \in Results : \E out \in {call(id, executed)} :
        /\ query' = Some(Returned("call", Some(id), out, [executed |-> executed]))
        /\ remote' = out.remote
        /\ counters' = out.counters
        /\ op' = Op("call", notified_block_number, None, Ended(out))
        /\ calls' = <<>>
        /\ UNCHANGED <<client_vars, store_vars>>

estimate_gas_call(id) ==
    \E executed \in Results : \E out \in {estimate_gas(id, executed)} :
        /\ query' = Some(Returned("estimate_gas", Some(id), out,
                          [executed |-> executed]))
        /\ remote' = out.remote
        /\ counters' = out.counters
        /\ op' = Op("estimate_gas", notified_block_number, None, Ended(out))
        /\ calls' = <<>>
        /\ UNCHANGED <<client_vars, store_vars>>

send_raw_transaction_call ==
    \E result \in RawResults : \E out \in {send_raw_transaction(result)} :
        /\ query' = Some(Returned("send_raw_transaction", None, out,
                          [result |-> result]))
        /\ remote' = out.remote
        /\ counters' = out.counters
        /\ op' = Op("send_raw_transaction", notified_block_number, None, Ended(out))
        /\ calls' = <<>>
        /\ UNCHANGED <<client_vars, store_vars>>

\* the first listener registers
first_listener ==
    /\ listeners = <<>>
    /\ \E l \in ListenerIds : add_listener(l)

NextCalls ==
    \/ init_db
    \/ import_blocks(1)
    \/ first_listener
    \/ best_block_number_call
    \/ \E id \in CallIds : block_call(id)
    \/ \E id \in CallIds : block_hash_call(id)
    \/ \E id \in CallTransactionIds : transaction_call(id)
    \/ transaction_receipt_call(ChainHash(1))
    \/ \E filter \in CallFilters : logs_call(filter)
    \/ \E id \in CallIds : balance_call(id)
    \/ \E id \in CallIds : code_call(id)
    \/ \E id \in CallIds : nonce_call(id)
    \/ \E id \in CallIds : storage_at_call(id)
    \/ \E id \in CallIds : call_call(id)
    \/ \E id \in CallIds : estimate_gas_call(id)
    \/ send_raw_transaction_call

SpecCalls == Init /\ [][NextCalls]_vars

----------------------------------------------------------------------------
(* Blocks, transactions and logs asked by an id on a database given key by  *)
(* key                                                                      *)

\* the transaction ids of the queries: by place in a block, by hash
QueryTransactionIds ==
    {Location(id, index) : id \in QueryIds, index \in 0..1}
        \cup {TransactionHash(h) : h \in Hashes \cup {Pruned}}

\* the filters of the queries: every address, no limit, one end a hash
HashFilters ==
    {Filter(from_block, to_block, {}, None) :
        <<from_block, to_block>> \in
            {x \in QueryIds \X QueryIds : x[1].tag = "Hash" \/ x[2].tag = "Hash"}}

\* a behaviour asks one query of its database
block_query(id) ==
    /\ query = None
    /\ block_call(id)

transaction_query(id) ==
    /\ query = None
    /\ transaction_call(id)

NextBlocks ==
    \/ \E id \in QueryIds : block_query(id)
    \/ \E id \in QueryTransactionIds : transaction_query(id)
    \/ \E filter \in HashFilters : logs_query(filter)

SpecBlocks == InitQueries /\ [][NextBlocks]_vars

----------------------------------------------------------------------------
(* StateDb on the bytes of its snapshot: the column emulation of get_key,   *)
(* KeyValueDB for StateDb, StateDb::new and StateDb::block                  *)

\* the bytes of a u32, the least significant first
Byte(n, i) == (n \div 256^i) % 256

\* u32::swap_bytes
swap_bytes(n) ==
    Byte(n, 0) * 16777216 + Byte(n, 1) * 65536 + Byte(n, 2) * 256 + Byte(n, 3)

\* a to_le that leaves the number as the target holds it
to_le_native(n, endian) == n

\* u32::to_le
to_le(n, endian) == IF endian = "little" THEN n ELSE swap_bytes(n)

\* to_bytes: the transmute gives the bytes in the order the target holds them
to_bytes(num, endian) ==
    IF endian = "little"
    THEN <<Byte(num, 0), Byte(num, 1), Byte(num, 2), Byte(num, 3)>>
    ELSE <<Byte(num, 3), Byte(num, 2), Byte(num, 1), Byte(num, 0)>>

\* get_key
get_key(col, key) ==
    LET col_bytes == IF col = None THEN <<0, 0, 0, 0>>
                     ELSE to_bytes(to_le(col[1], target_endian), target_endian)
    IN col_bytes \o key

\* Snapshot::get
Snapshot_get(snapshot, key) ==
    IF key \in DOMAIN snapshot THEN Some(snapshot[key]) ELSE None

\* KeyValueDB::get of StateDb
get(snapshot, col, key) == Ok(Snapshot_get(snapshot, get_key(col, key)))

\* the columns of the blockchain database
COL_HEADERS == Some(1)
COL_BODIES == Some(2)
COL_EXTRA == Some(3)

\* b"best"
BestKey == <<98, 101, 115, 116>>

\* the bytes of an H256
HashLen == 32

\* the H256 of a small number, as bytes
HashBytes(h) == [i \in 1..HashLen |-> IF i = HashLen THEN h ELSE 0]

\* H256::from_slice, the hash as the number its bytes spell
RECURSIVE H256_from_slice(_)
H256_from_slice(bytes) ==
    IF bytes = <<>> THEN 0
    ELSE H256_from_slice(SubSeq(bytes, 1, Len(bytes) - 1)) * 256 + bytes[Len(bytes)]

\* blocks_swapper: the run of bytes that is stored as one byte
Swapper == [common |-> <<0, 0>>, code |-> 1]

\* rlp_compress::compress, by which the runtime stores headers and bodies
RECURSIVE compress(_)
compress(raw) ==
    IF raw = <<>> THEN <<>>
    ELSE IF Len(raw) >= 2 /\ SubSeq(raw, 1, 2) = Swapper.common
    THEN <<Swapper.code>> \o compress(SubSeq(raw, 3, Len(raw)))
    ELSE <<Head(raw)>> \o compress(Tail(raw))

\* rlp_compress::decompress
RECURSIVE decompress(_)
decompress(bytes) ==
    IF bytes = <<>> THEN <<>>
    ELSE (IF Head(bytes) = Swapper.code THEN Swapper.common ELSE <<Head(bytes)>>)
            \o decompress(Tail(bytes))

\* StateDb::best_block_hash on the bytes
flat_best_block_hash(snapshot) ==
    LET best == get(snapshot, COL_EXTRA, BestKey) IN
    IF best.ok
    THEN IF best.val = None THEN None ELSE Some(H256_from_slice(best.val[1]))
    ELSE None

\* a new that takes every snapshot
new_always(snapshot) == Some([snapshot |-> snapshot])

\* StateDb::new
new(snapshot) ==
    IF flat_best_block_hash(snapshot) # None THEN Some([snapshot |-> snapshot])
    ELSE None

\* StateDb::block_header_data on the bytes; the get it unwraps is always Ok
flat_block_header_data(snapshot, hash) ==
    LET h == get(snapshot, COL_HEADERS, HashBytes(hash)).val IN
    IF h = None THEN None ELSE Some(decompress(h[1]))

\* StateDb::block_body on the bytes
flat_block_body(snapshot, hash) ==
    LET b == get(snapshot, COL_BODIES, HashBytes(hash)).val IN
    IF b = None THEN None ELSE Some(decompress(b[1]))

\* StateDb::block on the bytes
flat_block(snapshot, hash) ==
    LET header == flat_block_header_data(snapshot, hash) IN
    IF header = None THEN None
    ELSE LET body == flat_block_body(snapshot, hash) IN
         IF body = None THEN None
         ELSE Some([header |-> header[1], body |-> body[1]])

\* unimplemented!(): the call panics, the snapshot is as it was
unimplemented(snapshot) == [snapshot |-> snapshot, panic |-> TRUE]

\* a write_buffered that writes the transaction into the snapshot
write_buffered_applied(snapshot, tr) ==
    [snapshot |-> tr @@ snapshot, panic |-> FALSE]

\* KeyValueDB::write_buffered of StateDb
write_buffered(snapshot, tr) == unimplemented(snapshot)

\* KeyValueDB::flush, iter, iter_from_prefix, get_by_prefix, restore of StateDb
flush(snapshot) == unimplemented(snapshot)
iter(snapshot, col) == unimplemented(snapshot)
iter_from_prefix(snapshot, col, prefix) == unimplemented(snapshot)
get_by_prefix(snapshot, col, prefix) == unimplemented(snapshot)
restore(snapshot, new_db) == unimplemented(snapshot)

\* the most entries of a snapshot
MaxEntries == 2

\* the column ids of the calls: none, the columns of the blockchain
\* database, one of more than a byte
Columns == {None, Some(0), COL_HEADERS, COL_BODIES, COL_EXTRA, Some(258)}

\* the keys of the calls: b"best", the hash 1
Keys == {BestKey, HashBytes(1)}

\* the headers and bodies the runtime stores, as RLP
Raws == {<<249, 0, 0, 7>>, <<194, 0, 0>>}

\* the values the runtime stores: a hash, compressed headers and bodies
Values == {HashBytes(1)} \cup {compress(raw) : raw \in Raws}

\* the key the runtime stores a value of a column under: the column id as
\* four bytes, the least significant first, then the key
Prefix(col) ==
    IF col = None THEN <<0, 0, 0, 0>>
    ELSE <<col[1] % 256, (col[1] \div 256) % 256, (col[1] \div 65536) % 256,
           col[1] \div 16777216>>

FlatKey(col, key) == Prefix(col) \o key

\* the runtime stores a value of a column; under b"best" of COL_EXTRA it
\* stores a hash
inject(col, key, value) ==
    /\ query = None
    /\ FlatKey(col, key) \in DOMAIN snapshot_kv
        \/ Cardinality(DOMAIN snapshot_kv) < MaxEntries
    /\ FlatKey(col, key) = FlatKey(COL_EXTRA, BestKey) => Len(value) = HashLen
    /\ snapshot_kv' = (FlatKey(col, key) :> value) @@ snapshot_kv
    /\ op' = Op("inject", notified_block_number, None, "return")
    /\ calls' = <<>>
    /\ counters' = <<>>
    /\ UNCHANGED <<client_vars, store, query, remote, target_endian>>

\* what a call on the store that leaves ret records
Called(name, ret) ==
    Op(name, notified_block_number, None, IF ret.panic THEN "panic" ELSE "return")

\* a behaviour makes one call on the store of its snapshot
new_call ==
    /\ query = None
    /\ query' = Some([name |-> "new", value |-> new(snapshot_kv)])
    /\ op' = Op("new_store", notified_block_number, None, "return")
    /\ calls' = <<>>
    /\ counters' = <<>>
    /\ UNCHANGED <<client_vars, store_vars, remote>>

get_call(col, key) ==
    /\ query = None
    /\ query' = Some([name |-> "get", col |-> col, key |-> key,
                      value |-> get(snapshot_kv, col, key)])
    /\ op' = Op("get", notified_block_number, None, "return")
    /\ calls' = <<>>
    /\ counters' = <<>>
    /\ UNCHANGED <<client_vars, store_vars, remote>>

flat_block_call(hash) ==
    /\ query = None
    /\ query' = Some([name |-> "flat_block", hash |-> hash,
                      value |-> flat_block(snapshot_kv, hash)])
    /\ op' = Op("flat_block", notified_block_number, None, "return")
    /\ calls' = <<>>
    /\ counters' = <<>>
    /\ UNCHANGED <<client_vars, store_vars, remote>>

write_buffered_call ==
    /\ query = None
    /\ \E col \in Columns, key \in Keys, value \in Values : \E ret \in {write_buffered(snapshot_kv, FlatKey(col, key) :> value)} :
        /\ snapshot_kv' = ret.snapshot
        /\ op' = Called("write_buffered", ret)
    /\ query' = Some([name |-> "write_buffered"])
    /\ calls' = <<>>
    /\ counters' = <<>>
    /\ UNCHANGED <<client_vars, store, remote, target_endian>>

flush_call ==
    /\ query = None
    /\ \E ret \in {flush(snapshot_kv)} :
        /\ snapshot_kv' = ret.snapshot
        /\ op' = Called("flush", ret)
    /\ query' = Some([name |-> "flush"])
    /\ calls' = <<>>
    /\ counters' = <<>>
    /\ UNCHANGED <<client_vars, store, remote, target_endian>>

iter_call ==
    /\ query = None
    /\ \E col \in Columns : \E ret \in {iter(snapshot_kv, col)} :
        /\ snapshot_kv' = ret.snapshot
        /\ op' = Called("iter", ret)
    /\ query' = Some([name |-> "iter"])
    /\ calls' = <<>>
    /\ counters' = <<>>
    /\ UNCHANGED <<client_vars, store, remote, target_endian>>

iter_from_prefix_call ==
    /\ query = None
    /\ \E col \in Columns, prefix \in Keys : \E ret \in {iter_from_prefix(snapshot_kv, col, prefix)} :
        /\ snapshot_kv' = ret.snapshot
        /\ op' = Called("iter_from_prefix", ret)
    /\ query' = Some([name |-> "iter_from_prefix"])
    /\ calls' = <<>>
    /\ counters' = <<>>
    /\ UNCHANGED <<client_vars, store, remote, target_endian>>

get_by_prefix_call ==
    /\ query = None
    /\ \E col \in Columns, prefix \in Keys : \E ret \in {get_by_prefix(snapshot_kv, col, prefix)} :
        /\ snapshot_kv' = ret.snapshot
        /\ op' = Called("get_by_prefix", ret)
    /\ query' = Some([name |-> "get_by_prefix"])
    /\ calls' = <<>>
    /\ counters' = <<>>
    /\ UNCHANGED <<client_vars, store, remote, target_endian>>

restore_call ==
    /\ query = None
    /\ \E ret \in {restore(snapshot_kv, "new_db")} :
        /\ snapshot_kv' = ret.snapshot
        /\ op' = Called("restore", ret)
    /\ query' = Some([name |-> "restore"])
    /\ calls' = <<>>
    /\ counters' = <<>>
    /\ UNCHANGED <<client_vars, store, remote, target_endian>>

InitStore ==
    /\ snapshot_manager = TRUE
    /\ chain_height = None
    /\ notified_block_number = 0
    /\ cursor_lock = "free"
    /\ listeners = <<>>
    /\ alive = [l \in ListenerIds |-> TRUE]
    /\ calls = <<>>
    /\ counters = <<>>
    /\ op = Op("new", 0, None, "return")
    /\ ticked = FALSE
    /\ store = None
    /\ query = None
    /\ remote = <<>>
    /\ snapshot_kv = EmptyMap
    /\ target_endian \in {"little", "big"}
    /\ no_threads

NextStore ==
    \/ \E col \in Columns, key \in Keys, value \in Values : inject(col, key, value)
    \/ new_call
    \/ \E col \in Columns, key \in Keys : get_call(col, key)
    \/ \E hash \in 1..2 : flat_block_call(hash)
    \/ write_buffered_call
    \/ flush_call
    \/ iter_call
    \/ iter_from_prefix_call
    \/ get_by_prefix_call
    \/ restore_call

SpecStore == InitStore /\ [][NextStore]_vars

----------------------------------------------------------------------------
(* Client::last_hashes, and the lists of ancestors asked of a database      *)
(* given key by key                                                         *)

\* the length of LastHashes
LastHashesLen == 256

\* StateDb::block_details: the details of a block are stored with its
\* header, and hold the hash of its parent
block_details(db, hash) ==
    LET header == block_header_data(db, hash) IN
    IF header = None THEN None ELSE Some([parent |-> header[1].parent_hash])

\* a turn of the loop that takes the block itself for its parent
last_hashes_step_self(db, st) ==
    IF st.broke THEN st
    ELSE LET details == block_details(db, st.last_hashes[st.i + 1]) IN
         IF details = None THEN [st EXCEPT !.broke = TRUE]
         ELSE [st EXCEPT !.last_hashes[st.i + 2] = st.last_hashes[st.i + 1],
                         !.i = st.i + 1]

\* one turn of the loop of last_hashes, i counted from 0 as in the code
last_hashes_step(db, st) ==
    IF st.broke THEN st
    ELSE LET details == block_details(db, st.last_hashes[st.i + 1]) IN
         IF details = None THEN [st EXCEPT !.broke = TRUE]
         ELSE [st EXCEPT !.last_hashes[st.i + 2] = details[1].parent,
                         !.i = st.i + 1]

\* n turns of the loop
RECURSIVE last_hashes_loop(_, _, _)
last_hashes_loop(db, st, n) ==
    IF n = 0 THEN st
    ELSE IF n = 1 THEN last_hashes_step(db, st)
    ELSE LET mid == last_hashes_loop(db, st, n \div 2) IN
         IF mid.broke THEN mid
         ELSE last_hashes_loop(db, mid, n - (n \div 2))

\* Client::last_hashes
last_hashes(db, parent_hash) ==
    last_hashes_loop(db,
        [last_hashes |-> [i \in 1..LastHashesLen |-> IF i = 1 THEN parent_hash ELSE 0],
         i |-> 0, broke |-> FALSE],
        LastHashesLen - 1).last_hashes

\* a call of last_hashes(&db, &parent_hash)
last_hashes_query(parent_hash) ==
    /\ query = None
    /\ \E db \in {StateDb_new(store[1])} :
        /\ db # None
        /\ query' = Some([name |-> "last_hashes", parent_hash |-> parent_hash,
                          last_hashes |-> last_hashes(db[1], parent_hash)])
    /\ op' = Op("last_hashes", notified_block_number, None, "return")
    /\ calls' = <<>>
    /\ counters' = <<>>
    /\ UNCHANGED <<client_vars, store_vars, remote>>

NextAncestors ==
    \/ \E start \in 0..MaxNumber, end \in 0..MaxNumber, max \in 1..MaxMax :
            headers_since_query(start, end, max)
    \/ \E parent_hash \in Hashes \cup {0, Pruned} : last_hashes_query(parent_hash)

SpecAncestors == InitQueries /\ [][NextAncestors]_vars

----------------------------------------------------------------------------
(* The walks of logs and headers_since on a database in any state: parent   *)
(* links that go up in number, to the block itself or round in a ring, any  *)
(* numbering, any hash as the best block                                    *)

\* what is stored under each hash: nothing or a block that logs nothing
WalkPlacements ==
    [Hashes -> {None} \cup
               {Some([parent_hash |-> p, number |-> n, logs |-> <<>>]) :
                    p \in 0..Pruned, n \in 0..MaxNumber}]

\* the database of a placement; a number is indexed by a block of that
\* number
Graph(pl, best) ==
    LET stored == {h \in Hashes : pl[h] # None} IN
    [best |-> Some(best),
     hashes |-> [n \in {pl[h][1].number : h \in stored} |->
                    CHOOSE h \in stored : pl[h][1].number = n],
     headers |-> [h \in stored |->
                    [number |-> pl[h][1].number,
                     parent_hash |-> pl[h][1].parent_hash,
                     log_bloom |-> bloom_of(pl[h][1].logs)]],
     logs |-> [h \in stored |-> pl[h][1].logs],
     bodies |-> [h \in stored |-> <<h>>],
     transactions |-> EmptyMap]

Graphs ==
    {Graph(x[1], x[2]) : x \in {y \in WalkPlacements \X Hashes : y[1][y[2]] # None}}

\* the filters of the walks: every address, no limit, down from the best
\* block or from a hash
WalkFilters ==
    {Filter(from_block, to_block, {}, None) :
        from_block \in BlockIds,
        to_block \in {Latest} \cup {Hash(h) : h \in Hashes}}

InitWalks ==
    /\ snapshot_manager = TRUE
    /\ chain_height = None
    /\ notified_block_number = 0
    /\ cursor_lock = "free"
    /\ listeners = <<>>
    /\ alive = [l \in ListenerIds |-> TRUE]
    /\ calls = <<>>
    /\ counters = <<>>
    /\ op = Op("new", 0, None, "return")
    /\ ticked = FALSE
    /\ store \in {Some(db) : db \in Graphs}
    /\ query = None
    /\ remote = <<>>
    /\ snapshot_kv = EmptyMap
    /\ target_endian = "little"
    /\ no_threads

NextWalks ==
    \/ \E filter \in WalkFilters : logs_query(filter)
    \/ \E start \in 0..MaxNumber, end \in 0..MaxNumber, max \in {1, MaxMax} :
            headers_since_query(start, end, max)

SpecWalks == InitWalks /\ [][NextWalks]_vars

(* The operations as threads run them: an operation is a sequence of    *)
(* steps, one per lock it takes and per read of the database it makes,   *)
(* and the steps of different threads interleave.  pc says where a       *)
(* thread is, "idle" when it is in no operation; op is the last          *)
(* operation that returned.                                              *)

\* the locals of thread t with the fields of change replaced
Assigned(t, change) ==
    [local EXCEPT ![t] = [f \in DOMAIN local[t] |->
                            IF f \in DOMAIN change THEN change[f] ELSE local[t][f]]]

\* the locals of thread t when its operation returns: they are dropped
Returning(t) == [local EXCEPT ![t] = Local(local[t].left)]

\* Mutex::lock that gives the lock although another thread holds it
try_lock_shared(lock) == lock \in {"free", "locked"}

\* Mutex::lock: the lock is given when no thread holds it
try_lock(lock) == lock = "free"

\* the notify_logs calls among the calls made on a listener
logs_of(made) ==
    LET is_logs(c) == c.method = "notify_logs" IN SelectSeq(made, is_logs)

\* a thread calls new_blocks
new_blocks_enter(t) ==
    /\ t \in Tickers
    /\ pc[t] = "idle"
    /\ local[t].left > 0
    /\ pc' = [pc EXCEPT ![t] = "lock"]
    /\ local' = Assigned(t, [left |-> local[t].left - 1])
    /\ UNCHANGED op
    /\ calls' = <<>>
    /\ counters' = <<>>
    /\ UNCHANGED <<snapshot_manager, chain_height, notified_block_number, cursor_lock,
                   listeners, alive, ticked, registry_readers, delivered>>
    /\ UNCHANGED <<store, query, remote, snapshot_kv, target_endian>>

\* new_blocks: let mut last_block = self.notified_block_number.lock().unwrap()
lock_cursor(t) ==
    /\ pc[t] = "lock"
    /\ try_lock(cursor_lock)
    /\ cursor_lock' = "locked"
    /\ pc' = [pc EXCEPT ![t] = "snapshot"]
    /\ local' = Assigned(t, [last_block |-> notified_block_number])
    /\ UNCHANGED op
    /\ calls' = <<>>
    /\ counters' = <<>>
    /\ UNCHANGED <<snapshot_manager, chain_height, notified_block_number,
                   listeners, alive, ticked, registry_readers, delivered>>
    /\ UNCHANGED <<store, query, remote, snapshot_kv, target_endian>>

\* new_blocks: get_db_snapshot, best_block_number and the comparison with
\* the cursor; a tick that has nothing to announce drops the guard and returns
take_snapshot(t) ==
    /\ pc[t] = "snapshot"
    /\ \E snap \in {get_db_snapshot} :
          /\ counters' = snap.counters
          /\ IF snap.db = None
             THEN /\ cursor_lock' = unlock("return")
                  /\ pc' = [pc EXCEPT ![t] = "idle"]
                  /\ op' = Op("new_blocks", local[t].last_block, None, "return")
                  /\ local' = Returning(t)
             ELSE \E current_block \in {best_block_number(snap.db[1])} :
                  IF should_notify(current_block, local[t].last_block)
                     THEN /\ pc' = [pc EXCEPT ![t] = "read_registry"]
                          /\ local' = Assigned(t, [current_block |-> current_block,
                                                   db |-> snap.db])
                          /\ UNCHANGED <<cursor_lock, op>>
                     ELSE /\ op' = Op("new_blocks", local[t].last_block,
                                      Some(current_block), "return")
                          /\ cursor_lock' = unlock("return")
                          /\ pc' = [pc EXCEPT ![t] = "idle"]
                          /\ local' = Returning(t)
    /\ calls' = <<>>
    /\ UNCHANGED <<snapshot_manager, chain_height, notified_block_number,
                   listeners, alive, ticked, registry_readers, delivered>>
    /\ UNCHANGED <<store, query, remote, snapshot_kv, target_endian>>

\* notify: self.listeners.read().unwrap(); the shared side is given when no
\* thread holds the exclusive side, and no thread holds that across a step
read_registry(t) ==
    /\ pc[t] = "read_registry"
    /\ registry_readers' = registry_readers \cup {t}
    /\ pc' = [pc EXCEPT ![t] = "fan_out"]
    /\ local' = Assigned(t, [i |-> 1])
    /\ UNCHANGED op
    /\ calls' = <<>>
    /\ counters' = <<>>
    /\ UNCHANGED <<snapshot_manager, chain_height, notified_block_number, cursor_lock,
                   listeners, alive, ticked, delivered>>
    /\ UNCHANGED <<store, query, remote, snapshot_kv, target_endian>>

\* notify: one turn of the loop over the registry, the closure of new_blocks
\* on the listener it is at; past the last listener the read guard drops
fan_out(t) ==
    /\ pc[t] = "fan_out"
    /\ counters' = <<>>
    /\ UNCHANGED <<snapshot_manager, chain_height, notified_block_number,
                   listeners, alive, ticked>>
    /\ UNCHANGED <<store, query, remote, snapshot_kv, target_endian>>
    /\ IF local[t].i > Len(listeners)
       THEN /\ registry_readers' = registry_readers \ {t}
            /\ pc' = [pc EXCEPT ![t] = "advance"]
            /\ calls' = <<>>
            /\ UNCHANGED <<local, cursor_lock, delivered, op>>
       ELSE IF upgrade(listeners[local[t].i]) = None
       THEN /\ local' = Assigned(t, [i |-> local[t].i + 1])
            /\ calls' = <<>>
            /\ UNCHANGED <<pc, registry_readers, cursor_lock, delivered, op>>
       ELSE \E hs \in {headers_since(local[t].db[1], local[t].last_block + 1,
                                     local[t].current_block, MAX_HEADERS)} :
            \E has_heads \in BOOLEAN :
            \E out \in {new_blocks_closure(hs, local[t].last_block,
                            local[t].current_block, listeners[local[t].i], has_heads)} :
               /\ calls' = out.calls
               /\ delivered' = delivered \o logs_of(out.calls)
               /\ IF out.end = "return"
                  THEN /\ local' = Assigned(t, [i |-> local[t].i + 1])
                       /\ UNCHANGED <<pc, registry_readers, cursor_lock, op>>
                  ELSE \* the closure panics or never returns
                       /\ op' = Op("new_blocks", local[t].last_block,
                                   Some(local[t].current_block), out.end)
                       /\ registry_readers' =
                            IF out.end = "panic" THEN registry_readers \ {t}
                            ELSE registry_readers
                       /\ cursor_lock' = unlock(out.end)
                       /\ pc' = [pc EXCEPT ![t] = IF out.end = "panic" THEN "idle"
                                                  ELSE "hung"]
                       /\ UNCHANGED local

\* new_blocks: *last_block = current_block, and the guard drops on return
advance_cursor(t) ==
    /\ pc[t] = "advance"
    /\ notified_block_number' = advance(local[t].last_block, local[t].current_block)
    /\ cursor_lock' = unlock("return")
    /\ pc' = [pc EXCEPT ![t] = "idle"]
    /\ op' = Op("new_blocks", local[t].last_block,
                Some(local[t].current_block), "return")
    /\ calls' = <<>>
    /\ counters' = <<>>
    /\ ticked' = TRUE
    /\ local' = Returning(t)
    /\ UNCHANGED <<snapshot_manager, chain_height, listeners, alive,
                   registry_readers, delivered>>
    /\ UNCHANGED <<store, query, remote, snapshot_kv, target_endian>>

\* a thread calls add_listener, with a listener that is not registered yet
add_listener_enter(t) ==
    /\ t \in Registrars
    /\ pc[t] = "idle"
    /\ Len(listeners) < MaxRegistry
    /\ \E l \in ListenerIds : \A i \in 1..Len(listeners) : listeners[i] # l
    /\ pc' = [pc EXCEPT ![t] = "write"]
    /\ UNCHANGED op
    /\ calls' = <<>>
    /\ counters' = <<>>
    /\ UNCHANGED <<snapshot_manager, chain_height, notified_block_number, cursor_lock,
                   listeners, alive, ticked, local, registry_readers, delivered>>
    /\ UNCHANGED <<store, query, remote, snapshot_kv, target_endian>>

\* add_listener: self.listeners.write().unwrap().push(listener); the
\* exclusive side is given when no thread holds the shared side
write_registry(t) ==
    /\ pc[t] = "write"
    /\ registry_readers = {}
    /\ \E l \in ListenerIds :
          /\ \A i \in 1..Len(listeners) : listeners[i] # l
          /\ listeners' = push(listeners, l)
    /\ pc' = [pc EXCEPT ![t] = "idle"]
    /\ op' = Op("add_listener", notified_block_number, None, "return")
    /\ calls' = <<>>
    /\ counters' = <<>>
    /\ UNCHANGED <<snapshot_manager, chain_height, notified_block_number, cursor_lock,
                   alive, ticked, local, registry_readers, delivered>>
    /\ UNCHANGED <<store, query, remote, snapshot_kv, target_endian>>

\* what a call of block(Latest) that read the database gave: the value, the
\* best block numbers of the snapshot block took and of the one block_hash took
BlockRead(value, first, second) ==
    [name |-> "block", id |-> Some(Latest), source |-> "snapshot", value |-> value,
     snapshots |-> 2, executed |-> FALSE,
     given |-> [first |-> first, second |-> second]]

\* block: if let Some(db) = self.get_db_snapshot()
block_enter(t) ==
    /\ t \in Readers
    /\ pc[t] = "idle"
    /\ local[t].left > 0
    /\ \E snap \in {get_db_snapshot} :
          /\ counters' = snap.counters
          /\ local' = Assigned(t, [db |-> snap.db, left |-> local[t].left - 1])
          /\ pc' = [pc EXCEPT ![t] = IF snap.db = None THEN "get_block"
                                     ELSE "block_hash"]
    /\ UNCHANGED op
    /\ calls' = <<>>
    /\ UNCHANGED <<snapshot_manager, chain_height, notified_block_number, cursor_lock,
                   listeners, alive, ticked, registry_readers, delivered>>
    /\ UNCHANGED <<store, query, remote, snapshot_kv, target_endian>>

\* block: self.block_hash(id).and_then(|h| db.block(&h)), where block_hash
\* takes a snapshot of its own and db is the snapshot block took
block_leave(t) ==
    /\ pc[t] = "block_hash"
    /\ \E db \in {local[t].db[1]} : \E h \in {Client_block_hash(Latest)} :
       \E value \in {IF h.value = None THEN None ELSE StateDb_block(db, h.value[1])} :
          /\ query' = Some(BlockRead(value, best_block_number(db),
                              IF h.source = "snapshot"
                              THEN Some(best_block_number(get_snapshot)) ELSE None))
          /\ counters' = h.counters
    /\ pc' = [pc EXCEPT ![t] = "idle"]
    /\ op' = Op("block", notified_block_number, None, "return")
    /\ calls' = <<>>
    /\ local' = Returning(t)
    /\ UNCHANGED <<snapshot_manager, chain_height, notified_block_number, cursor_lock,
                   listeners, alive, ticked, registry_readers, delivered>>
    /\ UNCHANGED <<store, remote, snapshot_kv, target_endian>>

\* block: the fall back to the contract call, no snapshot being obtainable
block_remote(t) ==
    /\ pc[t] = "get_block"
    /\ \E result \in BlockResults :
       \E out \in {contract_call("get_block", result, None,
                                 [db |-> None, counters |-> <<>>])} :
          /\ query' = Some(Returned("block", Some(Latest), out, [result |-> result]))
          /\ remote' = out.remote
          /\ counters' = out.counters
    /\ pc' = [pc EXCEPT ![t] = "idle"]
    /\ op' = Op("block", notified_block_number, None, "return")
    /\ calls' = <<>>
    /\ local' = Returning(t)
    /\ UNCHANGED <<snapshot_manager, chain_height, notified_block_number, cursor_lock,
                   listeners, alive, ticked, registry_readers, delivered>>
    /\ UNCHANGED <<store, snapshot_kv, target_endian>>

\* a step of thread t
Step(t) ==
    \/ lock_cursor(t)
    \/ take_snapshot(t)
    \/ read_registry(t)
    \/ fan_out(t)
    \/ advance_cursor(t)
    \/ write_registry(t)
    \/ block_leave(t)
    \/ block_remote(t)

\* a client with a snapshot manager, its threads idle
InitThreads ==
    /\ Init
    /\ snapshot_manager

NextThreads ==
    \/ init_db
    \/ import_blocks(1)
    \/ \E t \in Threads : new_blocks_enter(t)
    \/ \E t \in Threads : add_listener_enter(t)
    \/ \E t \in Threads : block_enter(t)
    \/ \E t \in Threads : lock_cursor(t)
    \/ \E t \in Threads : take_snapshot(t)
    \/ \E t \in Threads : read_registry(t)
    \/ \E t \in Threads : fan_out(t)
    \/ \E t \in Threads : advance_cursor(t)
    \/ \E t \in Threads : write_registry(t)
    \/ \E t \in Threads : block_leave(t)
    \/ \E t \in Threads : block_remote(t)

SpecThreads == InitThreads /\ [][NextThreads]_vars

\* the threads under a scheduler that, while some thread can take a step,
\* runs one that can
FairThreads == SpecThreads /\ WF_vars(\E t \in Threads : Step(t))

----------------------------------------------------------------------------

----------------------------------------------------------------------------
(* What the properties below read off a state *)

\* the last operation was a notification tick
Tick == op.name = "new_blocks"

\* the last operation was a tick that found the snapshot at height c
TickAt(c) == Tick /\ op.end = "return" /\ op.snapshot = Some(c)

\* the last operation was a tick that found the snapshot above the cursor
Advancing == Tick /\ op.snapshot # None /\ op.snapshot[1] > op.last_block

\* the calls of method m the last operation made on listener l
CallsTo(l, m) ==
    {i \in 1..Len(calls) : calls[i].listener = l /\ calls[i].method = m}

\* the calls of method m the last operation made
CallsOf(m) == {i \in 1..Len(calls) : calls[i].method = m}

\* the registry entries that refer to listener l
Entries(l) == {i \in 1..Len(listeners) : listeners[i] = l}

\* the header the database stores for block number n of its chain
CanonicalHeader(n) ==
    block_header_data(get_snapshot, block_hash(get_snapshot, n)[1])[1]

\* the headers of a batch are the stored headers of blocks first..last
IsBatch(headers, first, last) ==
    /\ Len(headers) = last - first + 1
    /\ \A i \in 1..Len(headers) :
         /\ headers[i].number = first + i - 1
         /\ headers[i] = CanonicalHeader(first + i - 1)

\* a notify_logs call for the blocks first..last
IsLogRange(c, first, last) ==
    /\ c.from_block = Some(Number(first))
    /\ c.to_block = Some(Number(last))

\* every fan-out of the last tick: one has_heads_subscribers per live
\* registry entry, one notify_logs per live registry entry, one notify_heads
\* per has_heads_subscribers that answered true
OnePerEntry ==
    \A l \in ListenerIds :
      /\ Cardinality(CallsTo(l, "has_heads_subscribers")) =
           IF alive[l] THEN Cardinality(Entries(l)) ELSE 0
      /\ Cardinality(CallsTo(l, "notify_logs")) =
           IF alive[l] THEN Cardinality(Entries(l)) ELSE 0
      /\ Cardinality(CallsTo(l, "notify_heads")) =
           Cardinality({i \in CallsTo(l, "has_heads_subscribers") : calls[i].result})

----------------------------------------------------------------------------
(* C1: whenever a snapshot is obtainable, the notification cursor is at    *)
(* most best_block_number() of that snapshot.                              *)
C1_CursorAtMostBest ==
    LET snap == get_db_snapshot.db IN
    snap # None => notified_block_number <= best_block_number(snap[1])

\* a tick has moved the cursor up to the best block of the snapshot
C1_Witness ==
    /\ Advancing
    /\ get_db_snapshot.db # None
    /\ notified_block_number = best_block_number(get_db_snapshot.db[1])
    /\ notified_block_number > 0

(* C2: no step makes the notification cursor smaller, and only new_blocks  *)
(* changes it.                                                             *)
C2_CursorMonotone ==
    [][/\ notified_block_number' >= notified_block_number
       /\ notified_block_number' # notified_block_number => op'.name = "new_blocks"]_vars

\* a tick has moved a cursor that an earlier tick had moved already
C2_Witness ==
    /\ Advancing
    /\ op.last_block > 0
    /\ notified_block_number > op.last_block

(* C3: a tick with the cursor at H and the snapshot at H+k, 1 <= k <= 256, *)
(* delivers in each fan-out one batch of the k headers H+1..H+k (to a      *)
(* listener with heads subscribers) and one log range [Number(H+1),        *)
(* Number(H+k)], and leaves the cursor at H+k.                             *)
C3_BatchUpToMax ==
    (/\ Tick
     /\ op.end = "return"
     /\ op.snapshot # None
     /\ op.snapshot[1] - op.last_block \in 1..MAX_HEADERS) =>
      LET c == op.snapshot[1] IN
      /\ notified_block_number = c
      /\ OnePerEntry
      /\ \A i \in CallsOf("notify_heads") : IsBatch(calls[i].headers, op.last_block + 1, c)
      /\ \A i \in CallsOf("notify_logs") : IsLogRange(calls[i], op.last_block + 1, c)

\* a tick has announced exactly MAX_HEADERS blocks above a cursor that was
\* not 0, with a batch of headers
C3_Witness ==
    /\ Tick
    /\ op.last_block > 0
    /\ op.snapshot = Some(op.last_block + MAX_HEADERS)
    /\ CallsOf("notify_heads") # {}
    /\ CallsOf("notify_logs") # {}

(* C4: a tick that follows a tick with no change of the database between   *)
(* them calls no listener and leaves the cursor alone.                     *)
C4_SecondTickNoOp ==
    [][(op'.name = "new_blocks" /\ ticked) =>
          /\ calls' = <<>>
          /\ notified_block_number' = notified_block_number]_vars

\* a tick has found the snapshot where an earlier tick left the cursor,
\* with a live listener registered
C4_Witness ==
    /\ Tick
    /\ ticked
    /\ op.last_block > 0
    /\ op.snapshot = Some(op.last_block)
    /\ \E i \in 1..Len(listeners) : alive[listeners[i]]
    /\ calls = <<>>

(* C5 as stated: in a tick that advances the cursor, a registered live     *)
(* listener receives notify_heads iff its has_heads_subscribers() answered  *)
(* true, and every registered live listener receives exactly one           *)
(* notify_logs, for [cursor+1, current].                                   *)
C5_OneLogRangePerListener ==
    (Advancing /\ op.end = "return") =>
      \A l \in ListenerIds :
        (alive[l] /\ Entries(l) # {}) =>
          /\ CallsTo(l, "notify_heads") # {} <=>
               \E i \in CallsTo(l, "has_heads_subscribers") : calls[i].result
          /\ Cardinality(CallsTo(l, "notify_logs")) = 1
          /\ \A i \in CallsTo(l, "notify_logs") :
               IsLogRange(calls[i], op.last_block + 1, op.snapshot[1])

(* C5, amended: in a tick that advances the cursor, a live listener        *)
(* receives, for each registry entry that refers to it, one                *)
(* has_heads_subscribers, a notify_heads iff that call answered true, and  *)
(* one notify_logs for [cursor+1, current], whatever it answered; a        *)
(* listener that is registered once receives exactly one notify_logs.      *)
C5_OneLogRangePerEntry ==
    (Advancing /\ op.end = "return") =>
      /\ OnePerEntry
      /\ \A i \in CallsOf("notify_logs") :
           IsLogRange(calls[i], op.last_block + 1, op.snapshot[1])
      /\ \A i \in CallsOf("has_heads_subscribers") :
           /\ i < Len(calls)
           /\ calls[i + 1].listener = calls[i].listener
           /\ calls[i + 1].method = IF calls[i].result THEN "notify_heads" ELSE "notify_logs"
      /\ \A i \in CallsOf("notify_heads") :
           /\ i < Len(calls)
           /\ calls[i + 1].listener = calls[i].listener
           /\ calls[i + 1].method = "notify_logs"

\* a tick has advanced the cursor with a live listener that answered true
\* and a live listener that answered false
C5_Witness ==
    /\ Advancing
    /\ \E i, j \in CallsOf("has_heads_subscribers") : calls[i].result /\ ~calls[j].result
    /\ \E l \in ListenerIds : Cardinality(CallsTo(l, "notify_logs")) = 1

(* C6: a tick with the snapshot more than 256 above the cursor delivers    *)
(* batches of exactly the 256 headers current-255..current, a log range    *)
(* over all of [cursor+1, current], and leaves the cursor at current.      *)
C6_BatchCapped ==
    (/\ Tick
     /\ op.end = "return"
     /\ op.snapshot # None
     /\ op.snapshot[1] - op.last_block > MAX_HEADERS) =>
      LET c == op.snapshot[1] IN
      /\ notified_block_number = c
      /\ OnePerEntry
      /\ \A i \in CallsOf("notify_heads") :
           /\ Len(calls[i].headers) = MAX_HEADERS
           /\ IsBatch(calls[i].headers, c - MAX_HEADERS + 1, c)
      /\ \A i \in CallsOf("notify_logs") : IsLogRange(calls[i], op.last_block + 1, c)

\* a tick has announced more than MAX_HEADERS blocks, with a batch of headers
C6_Witness ==
    /\ Tick
    /\ op.snapshot # None
    /\ op.snapshot[1] - op.last_block > MAX_HEADERS
    /\ CallsOf("notify_heads") # {}

(* C7: a tick calls no method of a listener that was dropped before it,    *)
(* and with such a listener in the registry it still returns, notifies     *)
(* every live listener of the registry and advances the cursor.            *)
C7_DroppedListenerSkipped ==
    Tick =>
      /\ \A i \in 1..Len(calls) : alive[calls[i].listener]
      /\ op.end = "return"
      /\ Advancing =>
           /\ notified_block_number = op.snapshot[1]
           /\ \A l \in ListenerIds :
                (alive[l] /\ Entries(l) # {}) => CallsTo(l, "notify_logs") # {}

\* a tick has advanced the cursor with a dropped listener in the registry
\* before a live one
C7_Witness ==
    /\ Advancing
    /\ Len(listeners) = 2
    /\ ~alive[listeners[1]]
    /\ alive[listeners[2]]
    /\ calls # <<>>

(* C8: the registry changes only by add_listener, which appends one entry  *)
(* at its end; a tick leaves it as it is, dead entries included.           *)
C8_RegistryOnlyAppended ==
    [][IF op'.name = "add_listener"
       THEN \E l \in ListenerIds : listeners' = Append(listeners, l)
       ELSE listeners' = listeners]_vars

\* a tick has fanned out over a registry that holds a dead entry
C8_Witness ==
    /\ Advancing
    /\ calls # <<>>
    /\ \E i \in 1..Len(listeners) : ~alive[listeners[i]]

(* C9: a tick that can obtain no snapshot (no snapshot manager, or no best *)
(* block hash in the database) calls no listener and leaves the cursor     *)
(* alone.                                                                  *)
C9_NoSnapshotNoOp ==
    (Tick /\ (~snapshot_manager \/ chain_height = None)) =>
      /\ calls = <<>>
      /\ notified_block_number = op.last_block
      /\ op.snapshot = None

\* a tick has run without a snapshot manager, with blocks in the database
\* and a live listener registered
C9_Witness ==
    /\ Tick
    /\ ~snapshot_manager
    /\ chain_height # None
    /\ chain_height[1] > 0
    /\ \E i \in 1..Len(listeners) : alive[listeners[i]]

\* a tick has run with a snapshot manager on a database that holds no best
\* block hash, with a live listener registered
C9_WitnessUninitialized ==
    /\ Tick
    /\ snapshot_manager
    /\ chain_height = None
    /\ counters = <<"read_state_failed">>
    /\ \E i \in 1..Len(listeners) : alive[listeners[i]]

----------------------------------------------------------------------------
(* What the properties on logs read off a state *)

\* the last query was a call of logs
LogsQuery == query # None /\ query[1].name = "logs"

\* the parent links of db lead from hash `to` down to hash `from` through
\* stored headers that are all above the number of `from`
LinkedDown(db, from, to) ==
    /\ from \in DOMAIN db.headers
    /\ \E k \in 1..Cardinality(DOMAIN db.headers) :
       \E path \in [1..k -> DOMAIN db.headers] :
            /\ path[1] = to
            /\ path[k] = from
            /\ \A i \in 1..(k - 1) :
                /\ db.headers[path[i]].number > db.headers[from].number
                /\ db.headers[path[i]].parent_hash = path[i + 1]

\* the walk of the filter from its resolved to_block ends exactly at its
\* resolved from_block
WalkEndsAtFrom(db, filter) ==
    LET from_hash == id_to_block_hash(db, filter.from_block)
        to_hash == id_to_block_hash(db, filter.to_block) IN
    /\ from_hash # None
    /\ to_hash # None
    /\ LinkedDown(db, from_hash[1], to_hash[1])

\* C10: when the backward walk from the resolved to_block does not end
\* exactly at the resolved from_block hash (the two are on different forks,
\* an ancestor header is missing, from is above to), logs returns the empty
\* sequence: it returns log entries only when the walk ended at from_block.
C10_LogsAllOrNothing ==
    LogsQuery =>
        (~WalkEndsAtFrom(store[1], query[1].filter) => query[1].entries = <<>>)

\* from_block and to_block are two children of one stored block, to_block has
\* an entry the filter matches, and logs returned nothing
C10_Witness ==
    /\ LogsQuery
    /\ store[1].best # None
    /\ LET db == store[1]
           filter == query[1].filter
           from_hash == id_to_block_hash(db, filter.from_block)
           to_hash == id_to_block_hash(db, filter.to_block) IN
       /\ from_hash # None /\ to_hash # None
       /\ from_hash[1] \in DOMAIN db.headers
       /\ to_hash[1] \in DOMAIN db.headers
       /\ from_hash[1] # to_hash[1]
       /\ db.headers[to_hash[1]].parent_hash = db.headers[from_hash[1]].parent_hash
       /\ db.headers[to_hash[1]].parent_hash \in DOMAIN db.headers
       /\ bloom_match(bloom_possibilities(filter), db.headers[to_hash[1]])
       /\ \E i \in DOMAIN block_logs(db, to_hash[1]) :
            matches(filter, block_logs(db, to_hash[1])[i])
       /\ ~WalkEndsAtFrom(db, filter)
    /\ query[1].entries = <<>>

----------------------------------------------------------------------------
(* C11 *)

\* the hashes of the blocks on the parent links from hash `to` down to hash
\* `from`, both ends included
BlocksBetween(db, from, to) ==
    LET path == CHOOSE path \in UNION {[1..k -> DOMAIN db.headers] :
                                         k \in 1..Cardinality(DOMAIN db.headers)} :
                    /\ path[1] = to
                    /\ path[Len(path)] = from
                    /\ \A i \in 1..(Len(path) - 1) :
                        /\ db.headers[path[i]].number > db.headers[from].number
                        /\ db.headers[path[i]].parent_hash = path[i + 1]
    IN {path[i] : i \in 1..Len(path)}

\* blocks lists, lowest number first and each once, the blocks of hashes
BlocksAscending(db, blocks, hashes) ==
    /\ {blocks[i] : i \in 1..Len(blocks)} = hashes
    /\ \A i \in 1..(Len(blocks) - 1) :
        db.headers[blocks[i]].number < db.headers[blocks[i + 1]].number

\* C11: when from_block is to_block or an ancestor of it, the candidate
\* blocks logs hands to the log fetch are the blocks on the chain from
\* from_block to to_block (numbered from..to) whose log bloom contains one of
\* the bloom possibilities of the filter, lowest number first, and logs
\* returns at most filter.limit entries.
C11_CandidatesAndLimit ==
    (LogsQuery /\ store[1].best # None
               /\ WalkEndsAtFrom(store[1], query[1].filter)) =>
        LET db == store[1]
            filter == query[1].filter
            from_hash == id_to_block_hash(db, filter.from_block)[1]
            to_hash == id_to_block_hash(db, filter.to_block)[1]
            between == BlocksBetween(db, from_hash, to_hash) IN
        /\ {db.headers[h].number : h \in between}
             = db.headers[from_hash].number..db.headers[to_hash].number
        /\ BlocksAscending(db, query[1].blocks,
             {h \in between :
                \E bloom \in bloom_possibilities(filter) :
                    bloom \subseteq db.headers[h].log_bloom})
        /\ filter.limit # None => Len(query[1].entries) <= filter.limit[1]

\* a filter for an address over three blocks of one chain: one block did not
\* log for the address, two did, and the limit cut the entries to one
C11_Witness ==
    /\ LogsQuery
    /\ store[1].best # None
    /\ WalkEndsAtFrom(store[1], query[1].filter)
    /\ query[1].filter.address # {}
    /\ query[1].filter.limit = Some(1)
    /\ Cardinality(BlocksBetween(store[1],
            id_to_block_hash(store[1], query[1].filter.from_block)[1],
            id_to_block_hash(store[1], query[1].filter.to_block)[1])) = 3
    /\ Len(query[1].blocks) = 2
    /\ Len(query[1].entries) = 1

----------------------------------------------------------------------------
(* C12 *)

\* the last query was a call of headers_since
HeadersSinceQuery == query # None /\ query[1].name = "headers_since"

\* the blocks numbered first..last are stored, indexed by their number, and
\* each is the parent of the next
Intact(db, first, last) ==
    \A n \in first..last :
        /\ n \in DOMAIN db.hashes
        /\ db.hashes[n] \in DOMAIN db.headers
        /\ db.headers[db.hashes[n]].number = n
        /\ n > first => db.headers[db.hashes[n]].parent_hash = db.hashes[n - 1]

\* C12: for start <= end and max >= 1 on a chain that is intact from start
\* to end, headers_since(start, end, max) returns headers in strictly
\* ascending order of block number, at most max of them, the last numbered
\* end and the first numbered max(start, end - max + 1).
C12_HeadersSince ==
    (HeadersSinceQuery /\ Intact(store[1], query[1].start, query[1].end)) =>
        LET q == query[1]
            headers == q.headers
            low == q.end - q.max + 1 IN
        /\ ~q.panic /\ ~q.hang
        /\ \A i \in 1..(Len(headers) - 1) : headers[i].number < headers[i + 1].number
        /\ Len(headers) >= 1 /\ Len(headers) <= q.max
        /\ headers[Len(headers)].number = q.end
        /\ headers[1].number = IF q.start >= low THEN q.start ELSE low

\* three blocks asked for, two allowed: the two highest came back
C12_Witness ==
    /\ HeadersSinceQuery
    /\ Intact(store[1], query[1].start, query[1].end)
    /\ query[1].end - query[1].start = 2
    /\ query[1].max = 2
    /\ Len(query[1].headers) = 2

----------------------------------------------------------------------------
(* C13 *)

\* the last query ordered two ids
OrderQuery == query # None /\ query[1].name = "block_number_order"

\* the height of an id: Latest above every number, Earliest below every
\* number, a hash at the number of its header, at 0 without a header
Height(db, id) ==
    CASE id.tag = "Latest" -> MaxNumber + 1
      [] id.tag = "Earliest" -> 0 - 1
      [] id.tag = "Number" -> id.val
      [] id.tag = "Hash" ->
            IF id.val \in DOMAIN db.headers THEN db.headers[id.val].number ELSE 0

\* max and min return the two ids, one each
Complements(q) ==
    \/ q.max = q.id_a /\ q.min = q.id_b
    \/ q.max = q.id_b /\ q.min = q.id_a

\* max is not below min, Latest wins every max, Earliest wins every min
Ordered(db, q) ==
    /\ Height(db, q.max) >= Height(db, q.min)
    /\ (q.id_a = Latest \/ q.id_b = Latest) => q.max = Latest
    /\ (q.id_a = Earliest \/ q.id_b = Earliest) => q.min = Earliest

\* C13 as stated: for every pair of ids, max_block_number and
\* min_block_number are complements, max has a height >= min, Latest wins
\* every max and Earliest wins every min.
C13_Complements ==
    OrderQuery => (Complements(query[1]) /\ Ordered(store[1], query[1]))

\* C13, amended: the same, but max_block_number and min_block_number are
\* complements only of a pair of different heights (or of twice the same
\* id); of two different ids of one height both return the second.
C13_ComplementsOffTies ==
    OrderQuery =>
        LET q == query[1]
            tie == /\ q.id_a # q.id_b
                   /\ Height(store[1], q.id_a) = Height(store[1], q.id_b) IN
        /\ Ordered(store[1], q)
        /\ ~tie => Complements(q)
        /\ tie => (q.max = q.id_b /\ q.min = q.id_b)

\* a number and the hash of a block of that number: both max and min return
\* the hash
C13_Witness ==
    /\ OrderQuery
    /\ query[1].id_a.tag = "Number"
    /\ query[1].id_b.tag = "Hash"
    /\ query[1].id_b.val \in DOMAIN store[1].headers
    /\ store[1].headers[query[1].id_b.val].number = query[1].id_a.val
    /\ query[1].max = query[1].id_b
    /\ query[1].min = query[1].id_b

----------------------------------------------------------------------------
(* The dispatch of the operations between the snapshot and the runtime      *)

\* the read operations and the call on the runtime client each one falls
\* back to
ReadOperations ==
    {"best_block_number", "block", "block_hash", "transaction",
     "transaction_receipt", "logs", "balance", "code", "nonce", "storage_at"}

Equivalent(name) ==
    CASE name = "best_block_number" -> "get_block_height"
      [] name = "block" -> "get_block"
      [] name = "block_hash" -> "get_block_hash"
      [] name = "transaction" -> "get_transaction"
      [] name = "transaction_receipt" -> "get_receipt"
      [] name = "logs" -> "get_logs"
      [] name = "balance" -> "get_account_balance"
      [] name = "code" -> "get_account_code"
      [] name = "nonce" -> "get_account_nonce"
      [] name = "storage_at" -> "get_storage_at"

\* a snapshot is obtainable: StateDb::new succeeds on what the manager gives
Obtainable == get_db_snapshot.db # None

\* a step that is the call of one of the operations names: every step
\* leaves the name of its operation in op
CallOf(names) == op'.name \in names

\* C14: on every call of every read operation, in any sequence of calls, no
\* call on the runtime client is issued when a snapshot is obtainable at the
\* call, and exactly the equivalent call on the runtime client is issued
\* when none is.
C14_PerCallDispatch ==
    [][CallOf(ReadOperations) =>
        IF Obtainable THEN remote' = <<>>
        ELSE remote' = <<Equivalent(op'.name)>>]_vars

\* C15: send_raw_transaction always issues exactly one
\* execute_raw_transaction call on the runtime client, whether or not a
\* snapshot is obtainable, and never reads the snapshot or changes the
\* cursor or the registry.
C15_SendRawAlwaysRemote ==
    [][CallOf({"send_raw_transaction"}) =>
        /\ remote' = <<"execute_raw_transaction">>
        /\ query'[1].snapshots = 0
        /\ UNCHANGED <<notified_block_number, cursor_lock, listeners, alive>>]_vars

\* a send_raw_transaction called while a snapshot is obtainable and a
\* listener is registered
C15_Witness ==
    /\ op.name = "send_raw_transaction"
    /\ Obtainable
    /\ listeners # <<>>
    /\ remote = <<"execute_raw_transaction">>
    /\ query[1].value.ok

\* the blockchain database holds a header for the id
Resolvable(id) ==
    /\ chain_height # None
    /\ CASE id.tag = "Latest" -> TRUE
         [] id.tag = "Earliest" -> TRUE
         [] id.tag = "Number" -> id.val <= chain_height[1]
         [] id.tag = "Hash" -> \E n \in 0..chain_height[1] : ChainHash(n) = id.val

\* C20: call and estimate_gas return CallError::StateCorrupt when no
\* snapshot can be constructed or the account state for the id cannot be
\* resolved, and then the executor is not invoked and no call on the
\* runtime client is issued.
C20_StateCorruptWithoutState ==
    (/\ op.name \in {"call", "estimate_gas"}
     /\ ~Obtainable \/ ~Resolvable(query[1].id[1]))
    => /\ remote = <<>>
       /\ ~query[1].executed
       /\ query[1].source = "none"
       /\ query[1].value = StateCorrupt

\* an estimate_gas at block 1 on a snapshot of the genesis block alone, and
\* with it a call that ran the executor
C20_Witness ==
    /\ op.name = "estimate_gas"
    /\ Obtainable
    /\ query[1].id = Some(Number(1))
    /\ chain_height = Some(0)
    /\ ~query[1].executed
    /\ remote = <<>>

----------------------------------------------------------------------------
(* A hash that has no header                                                *)

\* the id is a hash under which the database holds no header
NoHeader(id) == id.tag = "Hash" /\ id.val \notin DOMAIN store[1].headers

----------------------------------------------------------------------------
(* The store on the bytes of its snapshot                                   *)

\* C17: StateDb::new(snapshot) returns None exactly when the snapshot holds
\* no value under the best-block-hash key (the column COL_EXTRA, the key
\* b"best"), and otherwise returns a store over that same snapshot.
C17_NewNeedsBestHash ==
    op.name = "new_store" =>
        /\ query[1].value = None <=> FlatKey(COL_EXTRA, BestKey) \notin DOMAIN snapshot_kv
        /\ query[1].value # None => query[1].value[1].snapshot = snapshot_kv

\* a new that returns None, on a target of the other byte order, for a
\* snapshot that holds a hash under b"best" of another column and a header
C17_Witness ==
    /\ op.name = "new_store"
    /\ target_endian = "big"
    /\ query[1].value = None
    /\ FlatKey(None, BestKey) \in DOMAIN snapshot_kv
    /\ FlatKey(COL_HEADERS, HashBytes(1)) \in DOMAIN snapshot_kv

\* C18: a value stored in the flat snapshot under the column id as four
\* bytes, the least significant first (all zero for the column None),
\* followed by the key, is returned by get(column, key), for every column;
\* a header and a body stored this way under a hash are read back by
\* block(hash) as the block of that header and that body.
C18_ColumnRoundTrip ==
    /\ op.name = "get" =>
        LET flat == FlatKey(query[1].col, query[1].key) IN
        query[1].value = Ok(IF flat \in DOMAIN snapshot_kv
                            THEN Some(snapshot_kv[flat]) ELSE None)
    /\ op.name = "flat_block" =>
        LET header_key == FlatKey(COL_HEADERS, HashBytes(query[1].hash))
            body_key == FlatKey(COL_BODIES, HashBytes(query[1].hash)) IN
        \A header \in Raws, body \in Raws :
            (/\ header_key \in DOMAIN snapshot_kv
             /\ body_key \in DOMAIN snapshot_kv
             /\ snapshot_kv[header_key] = compress(header)
             /\ snapshot_kv[body_key] = compress(body))
            => query[1].value = Some([header |-> header, body |-> body])

\* a block read back, on a target of the other byte order, from a header
\* and a body that are not the bytes they are stored as
C18_Witness ==
    /\ op.name = "flat_block"
    /\ target_endian = "big"
    /\ query[1].value = Some([header |-> <<249, 0, 0, 7>>, body |-> <<194, 0, 0>>])
    /\ snapshot_kv[FlatKey(COL_HEADERS, HashBytes(1))] # <<249, 0, 0, 7>>

\* the write-shaped and iteration calls of the store
WriteShaped ==
    {"write_buffered", "flush", "iter", "iter_from_prefix", "get_by_prefix", "restore"}

\* C19: every write-shaped or iteration call on the store (write_buffered,
\* flush, iter, iter_from_prefix, get_by_prefix, restore) panics as
\* unimplemented and leaves the snapshot unchanged, and no call on the
\* store changes the content of the snapshot.
C19_StoreNeverWrites ==
    [][op'.name # "inject" =>
        /\ snapshot_kv' = snapshot_kv
        /\ op'.name \in WriteShaped => op'.end = "panic"]_vars

\* a write_buffered that panicked on a snapshot that holds entries
C19_Witness ==
    /\ op.name = "write_buffered"
    /\ op.end = "panic"
    /\ Cardinality(DOMAIN snapshot_kv) = MaxEntries

----------------------------------------------------------------------------
(* Failures of the account state and of the runtime client, and the         *)
(* counters                                                                 *)

AccountReads == {"balance", "code", "nonce", "storage_at"}

\* C22: when the account state at the id is obtained and the read of
\* balance, nonce, code or storage_at returns an error, the operation
\* returns None, increments read_state_failed, issues no call on the
\* runtime client and returns to its caller.
C22_FailedReadIsUnavailable ==
    (/\ op.name \in AccountReads
     /\ Obtainable
     /\ Resolvable(query[1].id[1])
     /\ ~query[1].given.read.ok)
    => /\ remote = <<>>
       /\ counters = <<"read_state_failed">>
       /\ query[1].value = None
       /\ op.end = "return"

\* a storage_at at block 1 whose read failed while the runtime client
\* would have answered
C22_Witness ==
    /\ op.name = "storage_at"
    /\ Obtainable
    /\ query[1].id = Some(Number(1))
    /\ Resolvable(Number(1))
    /\ ~query[1].given.read.ok
    /\ query[1].given.result.ok
    /\ query[1].value = None

\* the operations of the gateway on the client
Operations == ReadOperations \cup {"call", "estimate_gas", "send_raw_transaction"}

\* the counters of an outcome
OutcomeCounters ==
    {"contract_call_succeeded", "contract_call_failed", "read_state_failed"}

\* C23: every completed call of a gateway operation, served from the
\* snapshot or by the runtime client, increments a named outcome counter
\* exactly once, a succeeded counter on success and a failed counter on
\* failure.
C23_OneOutcomeCounter ==
    [][(CallOf(Operations) /\ op'.end = "return") =>
        /\ Len(counters') = 1
        /\ counters'[1] \in OutcomeCounters]_vars

\* the operations that fall back to a call on the runtime client and what
\* the call may give them
RemoteResults(name) ==
    CASE name = "best_block_number" -> HeightResults
      [] name = "block" -> BlockResults
      [] OTHER -> Results

\* C25: a failed call on the runtime client is issued exactly once, and
\* what the caller gets for it is a failure value that no successful answer
\* of the operation gives, for every operation that calls the runtime
\* client, best_block_number among them.
C25_RemoteFailureReachesCaller ==
    [][(/\ CallOf(Operations)
        /\ remote' # <<>>
        /\ ~query'[1].given.result.ok) =>
        /\ Len(remote') = 1
        /\ IF op'.name = "send_raw_transaction" THEN ~query'[1].value.ok
           ELSE \A r \in RemoteResults(op'.name) : r.ok => query'[1].value # r.val]_vars

----------------------------------------------------------------------------
(* The namespaces of the column emulation                                   *)

\* C29: for any two distinct (column, key) pairs, the column being None or
\* any Some(id), Some(0) among them, get_key yields distinct flat keys, so
\* that a value stored under one column is never returned by get for
\* another column.
C29_NamespacesApart ==
    \A c1 \in Columns, c2 \in Columns, k1 \in Keys, k2 \in Keys :
        <<c1, k1>> # <<c2, k2>> => get_key(c1, k1) # get_key(c2, k2)

----------------------------------------------------------------------------
(* The list of ancestor hashes                                              *)

\* the last query was a call of last_hashes
LastHashesQuery == query # None /\ query[1].name = "last_hashes"

\* C24: last_hashes(db, parent_hash) returns a list of exactly 256 entries
\* in which entry 0 is parent_hash, entry i+1 is the stored parent of entry
\* i for as long as the entries up to i have stored block details, and
\* every entry after the first one without stored details is the zero hash.
C24_LastHashes ==
    LastHashesQuery =>
        LET l == query[1].last_hashes
            headers == store[1].headers IN
        /\ Len(l) = 256
        /\ l[1] = query[1].parent_hash
        /\ \A i \in 1..255 :
            l[i + 1] = IF \A j \in 1..i : l[j] \in DOMAIN headers
                       THEN headers[l[i]].parent_hash ELSE 0

\* the ancestors of the second of two blocks whose first has a parent that
\* is not stored
C24_Witness ==
    /\ LastHashesQuery
    /\ query[1].last_hashes[1] # query[1].last_hashes[2]
    /\ query[1].last_hashes[2] \in DOMAIN store[1].headers
    /\ query[1].last_hashes[3] = Pruned
    /\ query[1].last_hashes[4] = 0
    /\ query[1].last_hashes[256] = 0

\* C21: a lookup that shows a corrupt chain, a parent hash that cannot be
\* dereferenced while the list of ancestor hashes (last_hashes) or of
\* headers (headers_since) is built, aborts the request; an operation that
\* returns gives the whole list: headers_since the headers of an intact
\* stretch of the chain, last_hashes of a stored block no hash other than
\* the zero hash that is not stored.
C21_CorruptChainAborts ==
    /\ (HeadersSinceQuery /\ op.end = "return") =>
        LET low == query[1].end - query[1].max + 1 IN
        Intact(store[1], IF query[1].start >= low THEN query[1].start ELSE low,
               query[1].end)
    /\ (/\ LastHashesQuery
        /\ op.end = "return"
        /\ query[1].parent_hash \in DOMAIN store[1].headers) =>
        \A i \in 1..256 :
            query[1].last_hashes[i] # 0 =>
                query[1].last_hashes[i] \in DOMAIN store[1].headers

----------------------------------------------------------------------------
(* The walks end                                                            *)

\* the parent of each stored header, when stored, has a strictly smaller
\* number
Descending(db) ==
    \A h \in DOMAIN db.headers :
        db.headers[h].parent_hash \in DOMAIN db.headers
            => db.headers[db.headers[h].parent_hash].number < db.headers[h].number

\* C30: on every snapshot in which the parent of each stored header, when
\* stored, has a strictly smaller number, the backward walks of
\* logs(filter) and of headers_since end: logs returns, headers_since
\* returns or aborts at a header that is not stored.
C30_WalksEnd ==
    Descending(store[1]) =>
        /\ LogsQuery => op.end = "return"
        /\ HeadersSinceQuery => op.end \in {"return", "panic"}

\* a walk of logs over two blocks whose numbers are not one apart, the
\* parent under the larger hash
C30_Witness ==
    /\ LogsQuery
    /\ Descending(store[1])
    /\ Len(query[1].blocks) = 2
    /\ query[1].blocks[1] > query[1].blocks[2]
    /\ store[1].headers[query[1].blocks[2]].number
        > store[1].headers[query[1].blocks[1]].number + 1

----------------------------------------------------------------------------
\* a call of block(Latest) returned what it read from the database
BlockLatestRead ==
    /\ query # None
    /\ query[1].name = "block"
    /\ query[1].source = "snapshot"

\* C28: block(Latest), called while a snapshot is obtainable and the
\* database advances under it, resolves the id and reads the block from one
\* snapshot: it returns the best block of a snapshot taken during the call,
\* the one block took or the one block_hash took, and never not-found
C28_BlockLatestOneSnapshot ==
    BlockLatestRead =>
        /\ query[1].value # None
        /\ \/ query[1].value[1].header.number = query[1].given.first
           \/ Some(query[1].value[1].header.number) = query[1].given.second

----------------------------------------------------------------------------
\* the log ranges delivered to listener l, in the order of delivery
RangesOf(l) ==
    LET to_l(c) == c.listener = l IN SelectSeq(delivered, to_l)

\* the first and the last block number of a delivered log range
From(c) == c.from_block[1].val
To(c) == c.to_block[1].val

\* the threads whose tick is between taking the registry lock and
\* advancing the cursor
FanningOut == {t \in Tickers : pc[t] \in {"read_registry", "fan_out", "advance"}}

----------------------------------------------------------------------------
\* the locks a thread holds where it is: the registry is held shared only
\* by a tick that holds the cursor, and a thread that waits for the
\* exclusive side of the registry holds no lock
LockOrder ==
    /\ \A t \in registry_readers :
          t \in Tickers /\ pc[t] = "fan_out" /\ cursor_lock = "locked"
    /\ \A t \in Threads : pc[t] = "write" => t \in Registrars /\ t \notin registry_readers

\* some thread is in an operation
Started == \E t \in Threads : pc[t] # "idle"

\* C27: no interleaving of the steps of new_blocks, add_listener and block
\* calls deadlocks: new_blocks takes the cursor lock and then the shared side
\* of the registry, add_listener only the exclusive side of the registry,
\* while a thread is in an operation some thread can take a step, and under
\* a scheduler that runs a thread that can step every started operation
\* completes: the threads, which call a bounded number of times, come to
\* rest with every one of them out of its operation
C27_NoDeadlock ==
    /\ [](LockOrder /\ (Started => ENABLED (\E t \in Threads : Step(t))))
    /\ <>[](~Started)

\* a registration waits for the registry while a tick that holds the cursor
\* reads it and the other tick waits for the cursor
C27_Witness ==
    /\ pc["r"] = "write"
    /\ registry_readers # {}
    /\ \E t \in Tickers : pc[t] = "lock"
    /\ \E t \in Readers : pc[t] = "block_hash"

====
